---- MODULE Spec2Model ----
(***************************************************************************)
(* The key-pool actor (src/src/services/key_actor.rs) and the retry loop   *)
(* of the Gemini handler (src/src/gemini_state/mod.rs) of clewdr.          *)
(*                                                                         *)
(* Spec      the actor alone: every message it can receive, handled one    *)
(*           at a time, with the clock advancing in between.               *)
(* SpecSave  the actor together with the detached configuration-save tasks *)
(*           it spawns and the snapshot file they write.                   *)
(* SpecChat  requests running try_chat against the actor through its       *)
(*           mailbox, with detached key reports.                           *)
(* SpecCancel    SpecChat with the request token cancelled only while the  *)
(*           handler is suspended at an await.                             *)
(* SpecScenario  try_chat against a scripted upstream and a fixed pool,    *)
(*           without cancellation and with the clock held still.           *)
(* SpecConn  the connection registry, the connection monitor middleware    *)
(*           (src/src/middleware/connection.rs) and the handlers' request  *)
(*           token (src/src/api/gemini.rs).                                *)
(* SpecFake  one fake-streaming response (src/src/api/gemini.rs): the main *)
(*           loop, the keep-alive task and their channel, the upstream     *)
(*           call, the client and the registry.                            *)
(* SpecS6    two fake-streaming requests, one of each dialect, with their  *)
(*           upstream calls in flight when the server shuts down.          *)
(* SpecTags  the tag checks of src/src/utils/mod.rs applied to texts made  *)
(*           of a few tags and characters and to the texts of its tests.   *)
(* SpecValidate  check_empty_choices (src/src/gemini_state/mod.rs) applied *)
(*           to buffered bodies of both dialects.                          *)
(***************************************************************************)
EXTENDS Integers, Sequences, FiniteSets, Bags, TLC

\* ------------------------------------------------------------------ bounds

\* The clock runs over 0..MaxTime.
MaxTime == 2
\* Save tasks in flight at once (spawned and not yet finished).
MaxSaveTasks == 2
\* Length of a recorded run of consecutive leases.
MaxRun == 4

\* The configured number of retries.
MaxRetries == 1

\* The secrets of the keys that exist.
Secrets == {"K1", "K2", "K3"}

\* ------------------------------------------------------------------ KeyStatus

\* Option<timestamp>: None is <<>>, Some(t) is <<t>>.
None == <<>>
Some(t) == <<t>>

\* Duration of the cooldown a 429 puts on a key.
Cooldown429 == 1

CooldownValues == {None} \cup {Some(t) : t \in 1..(MaxTime + Cooldown429)}

\* A key with its status, as the actor stores it and callers clone it.
KeyStatus == [key : Secrets, cooldown_until : CooldownValues]

NewKey(s) == [key |-> s, cooldown_until |-> None]

\* KeyStatus equality and hashing look at the secret alone.
KeyEq(a, b) == a.key = b.key

\* A key is available iff it has no cooldown or its cooldown is over.
is_available(k, t) == k.cooldown_until = None \/ k.cooldown_until[1] <= t

\* key.set_429_cooldown() at time t.
set_429_cooldown(k, t) == [k EXCEPT !.cooldown_until = Some(t + Cooldown429)]

\* ------------------------------------------------------------------ sequences

Range(s) == {s[i] : i \in 1..Len(s)}

RemoveAt(s, i) == [j \in 1..(Len(s) - 1) |-> IF j < i THEN s[j] ELSE s[j + 1]]

\* iter().position(p): the first index whose element is in the set ok, 0 for none.
Position(s, ok) ==
    IF \E i \in 1..Len(s) : s[i] \in ok
    THEN CHOOSE i \in 1..Len(s) : s[i] \in ok /\ \A j \in 1..(i - 1) : s[j] \notin ok
    ELSE 0

\* iter().cloned().collect() into a HashSet<KeyStatus>: an element equal (by
\* secret) to an earlier one is not inserted.
CollectSet(s) == {s[i] : i \in {i \in 1..Len(s) : \A j \in 1..(i - 1) : ~KeyEq(s[j], s[i])}}

\* Mutant: keys are compared with their cooldowns.
Retain_exact(s, key) == SelectSeq(s, LAMBDA k : k # key)

\* VecDeque::retain(|k| *k != key)
Retain(s, key) == SelectSeq(s, LAMBDA k : ~KeyEq(k, key))

\* ------------------------------------------------------------------ requests

\* Requests that can run at once.
Reqs == {1, 2}

\* CLEWDR_CONFIG.max_retries
max_retries == MaxRetries

\* Result<_, ClewdrError> values: the error kind, and the HTTP status where
\* there is one.
Err(kind) == [kind |-> kind, code |-> 0]
GeminiHttpError(code) == [kind |-> "GeminiHttpError", code |-> code]
OkResponse == [kind |-> "Ok", code |-> 200]
Pending == [kind |-> "Pending", code |-> 0]

\* The statuses the upstream answers with besides 200.
ErrorCodes == {400, 403, 429, 500}

\* A request that is not running.
IdleReq ==
    [pc |-> "idle", vertex |-> FALSE, max_retries |-> max_retries, i |-> 0,
     key |-> None, err |-> None, result |-> None, cancelled |-> FALSE,
     attempts |-> 0, n |-> 0, outcome |-> Pending]

\* A request entering try_chat: max_retries is read from the configuration
\* once, before the loop.
NewReq(vertex, retries) ==
    [IdleReq EXCEPT !.pc = "start", !.vertex = vertex, !.max_retries = retries]

\* ------------------------------------------------------------------ connections

\* ConnectionId: one per request that reaches connection_monitor.
Conns == {1, 2}

\* How a request is answered: "plain" (not streaming), "stream" (the upstream's
\* stream passed on) or "fake" (ctx.stream && config.fake_streaming).
Modes == {"plain", "stream", "fake"}

\* A connection no request has arrived on. mw is the position of
\* connection_monitor, handler that of the handler inside next.run, resp the
\* response connection_monitor got, body the streamed body after it returned;
\* token is ConnectionInfo.cancel_token being cancelled, has_token whether the
\* handler was given it, composite whether composite.cancel() was called, and
\* bridge the task spawned to call it.
IdleConn ==
    [mw |-> "idle", handler |-> "none", mode |-> "-", resp |-> "-", body |-> "-",
     token |-> FALSE, has_token |-> FALSE, composite |-> FALSE, bridge |-> "none"]

\* ctx.api_format: the dialect the client speaks.
Formats == {"Gemini", "OpenAI"}

\* The capacity of the keep-alive channel (100 in the program, scaled down).
KeepAliveCapacity == 2

\* The keep-alive intervals that can elapse during one upstream call.
MaxTicks == 2

\* A fake stream that has not been polled. main is the position of the stream
\* body, ka that of the keep-alive task, chan the frames in the channel, due
\* whether the task's interval has a tick ready, abort whether
\* keep_alive_handle.abort() was called, api the state of api_future, body the
\* response it completed with, out the items the stream has yielded, elapsed
\* the intervals gone by while the upstream call was in flight, and late
\* whether one of them went by while a frame was still on its way.
IdleFake ==
    [main |-> "unpolled", ka |-> "none", chan |-> 0, due |-> FALSE,
     abort |-> FALSE, api |-> "none", format |-> "-", body |-> <<"-">>,
     out |-> <<>>, elapsed |-> 0, late |-> FALSE]

\* No buffered response: format is the dialect, candidates the number of
\* candidates or choices of the body, has_content whether the first one has a
\* content (Gemini) or a message.content that is a string (OpenAI), finish its
\* finish reason and parts the parts of the content.
NoResponse ==
    [format |-> "-", candidates |-> 0, has_content |-> FALSE, finish |-> "-",
     parts |-> <<>>]

\* No text is being validated: content is the text and toks the tokens it is
\* made of, tags the configured tags, closed and exist the verdicts of
\* check_tags_closed and check_required_tags_exist, resp the buffered response
\* under check_empty_choices and verdict its result.
IdleValidation ==
    [content |-> <<>>, tags |-> <<>>, toks |-> <<>>, closed |-> "-",
     exist |-> "-", resp |-> NoResponse, verdict |-> "-"]

\* ------------------------------------------------------------------ state

VARIABLES
    queue,        \* KeyActorState: the actor's VecDeque<KeyStatus>
    config_keys,  \* CLEWDR_CONFIG.gemini_keys: a HashSet<KeyStatus>
    disk,         \* the keys in the configuration file
    saveTasks,    \* bag of the detached save tasks in flight
    now,          \* the clock
    actorAlive,   \* the actor's message loop is running
    last,         \* the message the actor handled last and its outcome
    leaseRun,     \* the secrets leased by the Requests handled in a row
    mailbox,      \* the actor's message queue, oldest first
    req,          \* per request: the state of its try_chat call
    reports,      \* bag of the spawned report tasks that have not run yet
    vertex_credential,  \* CLEWDR_CONFIG.vertex.credential is set
    upstream,     \* how the upstream answers: any way, or as a scenario fixes it
    shutdown,     \* SHUTDOWN_TOKEN is cancelled
    registry,     \* CONNECTION_REGISTRY: the ids of the registered connections
    conn,         \* per connection: the middleware, the handler and their tokens
    fake,         \* per connection: the fake stream answering it, if any
    validation    \* a response text, the tags configured, and the validators' verdicts

vars == <<queue, config_keys, disk, saveTasks, now, actorAlive, last, leaseRun,
          mailbox, req, reports, vertex_credential, upstream,
          shutdown, registry, conn, fake, validation>>

\* What the requests own: untouched by the actor's own steps.
chatVars == <<mailbox, req, reports, vertex_credential, upstream>>

\* The key pool, its snapshot and the clock.
keyVars == <<queue, config_keys, disk, saveTasks, now, actorAlive, last, leaseRun>>

\* The cancellation tokens and the connection registry.
connVars == <<shutdown, registry, conn, fake>>

\* A save task before and after its CLEWDR_CONFIG.load().
Spawned == [pc |-> "spawned", snap |-> {}]
Loaded(cfg) == [pc |-> "loaded", snap |-> cfg]

\* ------------------------------------------------------------------ the actor

\* KeyActor::save: publish the queue as the configuration's key set, then spawn
\* the task that writes the configuration file.
save(state) ==
    /\ config_keys' = CollectSet(state)
    /\ saveTasks' = saveTasks (+) SetToBag({Spawned})

NoSave == UNCHANGED <<config_keys, saveTasks>>

\* Mutant: the front of the queue, whatever its cooldown.
available_index_front(state, t) == IF Len(state) > 0 THEN 1 ELSE 0

\* Mutant: the index of the last available key.
available_index_last(state, t) ==
    IF \E i \in 1..Len(state) : is_available(state[i], t)
    THEN CHOOSE i \in 1..Len(state) :
             is_available(state[i], t) /\ \A j \in (i + 1)..Len(state) : ~is_available(state[j], t)
    ELSE 0

\* dispatch: the index of the first available key.
available_index(state, t) == Position(state, {k \in Range(state) : is_available(k, t)})

\* Mutant: the leased key stays where it is.
rotate_not(state, i) == state

\* dispatch: the leased key moves to the tail.
rotate(state, i) == Append(RemoveAt(state, i), state[i])

\* Mutant: every Return of a pooled key counts as a change.
cooldown_changed_always(old, new) == TRUE

\* collect: did the returned key's cooldown differ from the stored one?
cooldown_changed(old, new) == old # new

\* Mutant: no check for an existing key.
key_exists_never(cfg, key) == FALSE

\* accept: the configuration already holds a key equal to this one.
key_exists(cfg, key) == \E k \in cfg : KeyEq(k, key)

\* reply_port.send(result)?: an Err, when the caller has dropped the receiving
\* end, ends handle() with an error and with it the actor.
reply(replyOk) == actorAlive' = replyOk

\* KeyActorMessage::Request
dispatch(replyOk) ==
    LET i == available_index(queue, now) IN
    /\ IF i = 0
       THEN /\ UNCHANGED queue
            /\ last' = [type |-> "Request", key |-> "-", ok |-> FALSE]
            /\ leaseRun' = <<>>
       ELSE /\ queue' = rotate(queue, i)
            /\ last' = [type |-> "Request", key |-> queue[i].key, ok |-> TRUE]
            /\ leaseRun' = Append(leaseRun, queue[i].key)
    /\ NoSave
    /\ reply(replyOk)

\* Mutant: a returned key that is not in the pool is put back at the tail.
collect_readd(key) ==
    LET pos == Position(queue, {k \in Range(queue) : k.key = key.key}) IN
    /\ IF pos = 0
       THEN /\ queue' = Append(queue, key)
            /\ save(Append(queue, key))
            /\ last' = [type |-> "Return", key |-> key.key, ok |-> FALSE]
       ELSE LET new == [queue EXCEPT ![pos] = key] IN
            /\ queue' = new
            /\ IF cooldown_changed(queue[pos].cooldown_until, key.cooldown_until)
               THEN save(new)
               ELSE NoSave
            /\ last' = [type |-> "Return", key |-> key.key, ok |-> TRUE]
    /\ leaseRun' = <<>>
    /\ UNCHANGED actorAlive

\* KeyActorMessage::Return
collect(key) ==
    LET pos == Position(queue, {k \in Range(queue) : k.key = key.key}) IN
    /\ IF pos = 0
       THEN /\ UNCHANGED queue
            /\ NoSave
            /\ last' = [type |-> "Return", key |-> key.key, ok |-> FALSE]
       ELSE LET new == [queue EXCEPT ![pos] = key] IN
            /\ queue' = new
            /\ IF cooldown_changed(queue[pos].cooldown_until, key.cooldown_until)
               THEN save(new)
               ELSE NoSave
            /\ last' = [type |-> "Return", key |-> key.key, ok |-> TRUE]
    /\ leaseRun' = <<>>
    /\ UNCHANGED actorAlive

\* KeyActorMessage::Submit
accept(key) ==
    /\ IF key_exists(config_keys, key)
       THEN /\ UNCHANGED queue
            /\ NoSave
            /\ last' = [type |-> "Submit", key |-> key.key, ok |-> FALSE]
       ELSE LET new == Append(queue, key) IN
            /\ queue' = new
            /\ save(new)
            /\ last' = [type |-> "Submit", key |-> key.key, ok |-> TRUE]
    /\ leaseRun' = <<>>
    /\ UNCHANGED actorAlive

\* KeyActorMessage::GetStatus
report(replyOk) ==
    /\ UNCHANGED queue
    /\ NoSave
    /\ last' = [type |-> "GetStatus", key |-> "-", ok |-> TRUE]
    /\ leaseRun' = <<>>
    /\ reply(replyOk)

\* KeyActorMessage::Delete
delete(key, replyOk) ==
    LET new == Retain(queue, key) IN
    /\ queue' = new
    /\ IF Len(new) < Len(queue)
       THEN /\ save(new)
            /\ last' = [type |-> "Delete", key |-> key.key, ok |-> TRUE]
       ELSE /\ NoSave
            /\ last' = [type |-> "Delete", key |-> key.key, ok |-> FALSE]
    /\ leaseRun' = <<>>
    /\ reply(replyOk)

\* ------------------------------------------------------------------ save tasks

\* The spawned task starts: CLEWDR_CONFIG.load() takes the configuration as it
\* is at that moment.
SaveTaskLoad ==
    /\ BagIn(Spawned, saveTasks)
    /\ saveTasks' = (saveTasks (-) SetToBag({Spawned})) (+) SetToBag({Loaded(config_keys)})
    /\ UNCHANGED <<queue, config_keys, disk, now, actorAlive, last, leaseRun>>
    /\ UNCHANGED <<chatVars, connVars, validation>>

\* .save().await finishes: the configuration the task loaded is in the file.
SaveTaskWrite ==
    \E task \in {t \in BagToSet(saveTasks) : t.pc = "loaded"} :
        /\ disk' = task.snap
        /\ saveTasks' = saveTasks (-) SetToBag({task})
        /\ UNCHANGED <<queue, config_keys, now, actorAlive, last, leaseRun>>
        /\ UNCHANGED <<chatVars, connVars, validation>>

\* ------------------------------------------------------------------ the clock

Tick ==
    /\ now < MaxTime
    /\ now' = now + 1
    /\ UNCHANGED <<queue, config_keys, disk, saveTasks, actorAlive, last, leaseRun>>
    /\ UNCHANGED <<chatVars, connVars, validation>>

\* ------------------------------------------------------------------ Spec

\* Orders of a set of keys: VecDeque::from_iter over a HashSet.
Orders(S) == {s \in [1..Cardinality(S) -> S] : Range(s) = S}

\* pre_start: the queue is built from the configuration's key set, which the
\* configuration file holds too.
InitPool ==
    /\ \E keys \in SUBSET Secrets :
          /\ config_keys = {NewKey(s) : s \in keys}
          /\ queue \in Orders(config_keys)
    /\ disk = config_keys
    /\ saveTasks = EmptyBag
    /\ now = 0
    /\ actorAlive = TRUE
    /\ last = [type |-> "-", key |-> "-", ok |-> TRUE]
    /\ leaseRun = <<>>
    /\ mailbox = <<>>
    /\ reports = EmptyBag
    /\ shutdown = FALSE
    /\ registry = {}
    /\ conn = [c \in Conns |-> IdleConn]
    /\ fake = [c \in Conns |-> IdleFake]
    /\ validation = IdleValidation

\* No request is running.
Init ==
    /\ InitPool
    /\ req = [r \in Reqs |-> IdleReq]
    /\ vertex_credential = FALSE
    /\ upstream = "any"

\* A mutation may spawn a save task: leave room for it.
RoomToSave == BagCardinality(saveTasks) < MaxSaveTasks

Return(key) ==
    /\ actorAlive
    /\ RoomToSave
    /\ collect(key)
    /\ UNCHANGED <<disk, now>>
    /\ UNCHANGED <<chatVars, connVars, validation>>

Submit(key) ==
    /\ actorAlive
    /\ RoomToSave
    /\ accept(key)
    /\ UNCHANGED <<disk, now>>
    /\ UNCHANGED <<chatVars, connVars, validation>>

Request(replyOk) ==
    /\ actorAlive
    /\ Len(leaseRun) < MaxRun
    /\ dispatch(replyOk)
    /\ UNCHANGED <<disk, now>>
    /\ UNCHANGED <<chatVars, connVars, validation>>

GetStatus(replyOk) ==
    /\ actorAlive
    /\ report(replyOk)
    /\ UNCHANGED <<disk, now>>
    /\ UNCHANGED <<chatVars, connVars, validation>>

Delete(key, replyOk) ==
    /\ actorAlive
    /\ RoomToSave
    /\ delete(key, replyOk)
    /\ UNCHANGED <<disk, now>>
    /\ UNCHANGED <<chatVars, connVars, validation>>

Next ==
    \/ \E key \in KeyStatus : Return(key)
    \/ \E key \in KeyStatus : Submit(key)
    \/ \E replyOk \in BOOLEAN : Request(replyOk)
    \/ \E replyOk \in BOOLEAN : GetStatus(replyOk)
    \/ \E key \in KeyStatus, replyOk \in BOOLEAN : Delete(key, replyOk)
    \/ Tick

Spec == Init /\ [][Next]_vars

\* ------------------------------------------------------------------ SpecSave

\* The keys of the save-task specification: two secrets, with and without a
\* cooldown.
SaveKeyStatus == [key : {"K1", "K2"}, cooldown_until : {None, Some(Cooldown429)}]

InitSave ==
    /\ Init
    /\ config_keys \subseteq SaveKeyStatus

NextSave ==
    \/ \E key \in SaveKeyStatus : Return(key)
    \/ \E key \in SaveKeyStatus : Submit(key)
    \/ \E replyOk \in BOOLEAN : Request(replyOk)
    \/ \E key \in SaveKeyStatus, replyOk \in BOOLEAN : Delete(key, replyOk)
    \/ SaveTaskLoad
    \/ SaveTaskWrite

SpecSave == InitSave /\ [][NextSave]_vars

\* ------------------------------------------------------------------ try_chat

\* Mutant: one turn too many.
attempt_limit_more(retries) == retries + 2

\* for i in 0..max_retries + 1
attempt_limit(retries) == retries + 1

\* Mutant: a 403 is taken for a rate limit.
report_kind_403_as_429(code) ==
    CASE code = 400 -> "400"
      [] code \in {403, 429} -> "429"
      [] OTHER -> "none"

\* try_chat, Err(GeminiHttpError { code, .. }): the report spawned for the
\* status, "none" for a status without one.
report_kind(code) ==
    CASE code = 400 -> "400"
      [] code = 403 -> "403"
      [] code = 429 -> "429"
      [] OTHER -> "none"

\* A spawned report task, holding the attempt's state (its key).
ReportTask(kind, key) == [kind |-> kind, key |-> key]

\* try_chat: the report tasks spawned for a failed attempt.
error_reports(code, key) ==
    IF report_kind(code) = "none" THEN EmptyBag
    ELSE SetToBag({ReportTask(report_kind(code), key)})

\* Mutant: the key is reported back although the validator failed.
validator_error_reports_success(key) == SetToBag({ReportTask("success", key)})

\* try_chat, Err(e) of check_empty_choices: nothing is spawned.
validator_error_reports(key) == EmptyBag

\* Mutant: every error of send_chat is retried.
send_error_retried_always(e) == TRUE

\* try_chat, match e: a GeminiHttpError is retried, any other error of
\* send_chat is returned.
send_error_retried(e) == e.kind = "GeminiHttpError"

\* try_chat, Err(e) of check_empty_choices: every error is retried.
validator_error_retried(e) == TRUE

\* The messages of the key-pool actor.
\* from: the request waiting for the reply; report: the report that sent it.
RequestMsg(r) == [type |-> "Request", key |-> None, from |-> r, report |-> "-"]
ReturnMsg(key, kind) == [type |-> "Return", key |-> Some(key), from |-> 0, report |-> kind]
DeleteMsg(key, kind) == [type |-> "Delete", key |-> Some(key), from |-> 0, report |-> kind]

\* report_400 / report_403 / report_429 / report_success: the message the task
\* sends for its key at time t.
report_message(task, t) ==
    CASE task.kind \in {"400", "403"} -> DeleteMsg(task.key[1], task.kind)
      [] task.kind = "429" -> ReturnMsg(set_429_cooldown(task.key[1], t), task.kind)
      [] OTHER -> ReturnMsg(task.key[1], task.kind)

PoolUnchanged == UNCHANGED <<queue, config_keys, saveTasks, actorAlive, last, leaseRun>>

\* try_chat returns: Ok(resp) or Err(e).
Returns(r, value) ==
    [req[r] EXCEPT !.pc = "done", !.result = Some(value)]

\* try_chat returns the error send_chat ended with.
Fatal(r, e) ==
    [Returns(r, e) EXCEPT !.n = @ + 1, !.outcome = e]

\* Mutant: the first error is kept.
captured_first(old, e) == IF old # None THEN old ELSE Some(e)

\* err = Some(e): the error of this attempt replaces the one captured before.
captured(old, e) == Some(e)

\* err = Some(e); continue
Continue(r, e) ==
    [req[r] EXCEPT !.pc = "start", !.i = @ + 1, !.err = captured(@, e),
                   !.n = @ + 1, !.outcome = e]

\* Mutant: the missing credential goes unnoticed.
credential_found_always(credential) == TRUE

\* vertex_response: let Some(cred) = CLEWDR_CONFIG.load().vertex.credential
credential_found(credential) == credential

\* Mutant: send_chat requests a key before it looks at the vertex flag.
BeginAttempt_key_first(r, buildOk) ==
    /\ req[r].pc = "start"
    /\ req[r].i < attempt_limit(req[r].max_retries)
    /\ buildOk
    /\ LET cur == [req[r] EXCEPT !.attempts = @ + 1, !.key = None] IN
       IF actorAlive
       THEN /\ mailbox' = Append(mailbox, RequestMsg(r))
            /\ req' = [req EXCEPT ![r] = [cur EXCEPT !.pc = "lease"]]
       ELSE /\ UNCHANGED mailbox
            /\ req' = [req EXCEPT ![r] =
                    [Fatal(r, Err("RactorError")) EXCEPT !.attempts = @ + 1]]
    /\ PoolUnchanged
    /\ UNCHANGED <<disk, now, reports, vertex_credential, upstream, connVars, validation>>

\* One turn of the loop starts: send_chat on a clone of the state. On the
\* Vertex path the client is built and the credential looked up; otherwise the
\* key is requested from the actor.
BeginAttempt(r, buildOk) ==
    /\ req[r].pc = "start"
    /\ req[r].i < attempt_limit(req[r].max_retries)
    /\ LET cur == [req[r] EXCEPT !.attempts = @ + 1, !.key = None] IN
       IF req[r].vertex
       THEN /\ req' = [req EXCEPT ![r] =
                    IF ~buildOk THEN [Fatal(r, Err("BuildClient")) EXCEPT !.attempts = @ + 1]
                    ELSE IF ~credential_found(vertex_credential)
                         THEN [Fatal(r, Err("BadRequest")) EXCEPT !.attempts = @ + 1]
                         ELSE [cur EXCEPT !.pc = "send"]]
            /\ UNCHANGED mailbox
       ELSE /\ buildOk
            /\ IF actorAlive
               THEN /\ mailbox' = Append(mailbox, RequestMsg(r))
                    /\ req' = [req EXCEPT ![r] = [cur EXCEPT !.pc = "lease"]]
               ELSE /\ UNCHANGED mailbox
                    /\ req' = [req EXCEPT ![r] =
                            [Fatal(r, Err("RactorError")) EXCEPT !.attempts = @ + 1]]
    /\ PoolUnchanged
    /\ UNCHANGED <<disk, now, reports, vertex_credential, upstream, connVars, validation>>

\* The loop is over: the last error, or TooManyRetries.
LoopExit(r) ==
    /\ req[r].pc = "start"
    /\ req[r].i >= attempt_limit(req[r].max_retries)
    /\ req' = [req EXCEPT ![r] =
            Returns(r, IF req[r].err # None THEN req[r].err[1] ELSE Err("TooManyRetries"))]
    /\ PoolUnchanged
    /\ UNCHANGED <<disk, now, mailbox, reports, vertex_credential, upstream, connVars, validation>>

\* The actor handles the oldest message. A Request is answered to the request
\* waiting for it; if that request is gone, the reply fails and the actor stops,
\* dropping what is left in its mailbox.
ActorHandle ==
    /\ actorAlive
    /\ mailbox # <<>>
    /\ LET m == Head(mailbox) IN
       CASE m.type = "Request" ->
              LET waiting == m.from \in Reqs /\ req[m.from].pc = "lease"
                  i == available_index(queue, now)
              IN
              /\ dispatch(waiting)
              /\ mailbox' = IF waiting THEN Tail(mailbox) ELSE <<>>
              /\ req' = IF ~waiting THEN req
                        ELSE [req EXCEPT ![m.from] =
                                IF i = 0 THEN Fatal(m.from, Err("NoKeyAvailable"))
                                ELSE [@ EXCEPT !.pc = "send", !.key = Some(queue[i])]]
         [] m.type = "Return" ->
              /\ collect(m.key[1])
              /\ mailbox' = Tail(mailbox)
              /\ UNCHANGED req
         [] m.type = "Delete" ->
              /\ delete(m.key[1], TRUE)
              /\ mailbox' = Tail(mailbox)
              /\ UNCHANGED req
    /\ UNCHANGED <<disk, now, reports, vertex_credential, upstream, connVars, validation>>

\* The actor stopped while the request waited for its key.
LeaseLost(r) ==
    /\ req[r].pc = "lease"
    /\ ~actorAlive
    /\ req' = [req EXCEPT ![r] = Fatal(r, Err("RactorError"))]
    /\ PoolUnchanged
    /\ UNCHANGED <<disk, now, mailbox, reports, vertex_credential, upstream, connVars, validation>>

\* The keys the scenarios name, as the pool holds them at first.
K1 == NewKey("K1")
K2 == NewKey("K2")

\* What the upstream answers to the attempt request r is making, by the kind of
\* upstream: "any" answers any way; "transient" answers 429 or 200, with 200
\* from attempt max_retries on; "S1" answers 429 for K1 and 200 for any other
\* key; "S2" answers 403.
UpstreamAnswers(r) ==
    CASE upstream = "transient" ->
            {OkResponse} \cup (IF req[r].attempts < req[r].max_retries
                               THEN {GeminiHttpError(429)} ELSE {})
      [] upstream = "S1" ->
            IF req[r].key # None /\ req[r].key[1].key = K1.key
            THEN {GeminiHttpError(429)} ELSE {OkResponse}
      [] upstream = "S2" -> {GeminiHttpError(403)}
      [] OTHER ->
            {OkResponse} \cup {GeminiHttpError(c) : c \in ErrorCodes}
                \cup {Err("Transport")}
                \cup (IF req[r].vertex THEN {} ELSE {Err("BuildClient")})

\* What send_chat can end with once the key (or the credential) is there.
SendOutcomes(r) == UpstreamAnswers(r)

\* send_chat ends and try_chat matches on its result.
SendChatEnds(r, o) ==
    /\ req[r].pc = "send"
    /\ o \in SendOutcomes(r)
    /\ IF o = OkResponse
       THEN /\ req' = [req EXCEPT ![r].pc = "validate"]
            /\ UNCHANGED reports
       ELSE IF send_error_retried(o)
       THEN /\ reports' = reports (+) error_reports(o.code, req[r].key)
            /\ req' = [req EXCEPT ![r] = Continue(r, o)]
       ELSE /\ req' = [req EXCEPT ![r] = Fatal(r, o)]
            /\ UNCHANGED reports
    /\ PoolUnchanged
    /\ UNCHANGED <<disk, now, mailbox, vertex_credential, upstream, connVars, validation>>

\* What check_empty_choices can end with.
ValidatorOutcomes == {OkResponse, Err("EmptyChoices"), Err("JsonError"), Err("BodyRead")}

\* check_empty_choices ends and try_chat matches on its result.
CheckEmptyChoicesEnds(r, v) ==
    /\ req[r].pc = "validate"
    /\ v \in ValidatorOutcomes
    /\ IF v = OkResponse
       THEN /\ reports' = reports (+) SetToBag({ReportTask("success", req[r].key)})
            /\ req' = [req EXCEPT ![r] =
                    [Returns(r, v) EXCEPT !.n = @ + 1, !.outcome = v]]
       ELSE IF validator_error_retried(v)
       THEN /\ reports' = reports (+) validator_error_reports(req[r].key)
            /\ req' = [req EXCEPT ![r] = Continue(r, v)]
       ELSE /\ req' = [req EXCEPT ![r] = Fatal(r, v)]
            /\ UNCHANGED reports
    /\ PoolUnchanged
    /\ UNCHANGED <<disk, now, mailbox, vertex_credential, upstream, connVars, validation>>

\* The request's cancellation token is cancelled.
CancelToken(r) ==
    /\ req[r].pc \notin {"idle", "done"}
    /\ ~req[r].cancelled
    /\ req' = [req EXCEPT ![r].cancelled = TRUE]
    /\ PoolUnchanged
    /\ UNCHANGED <<disk, now, mailbox, reports, vertex_credential, upstream, connVars, validation>>

\* select!: the cancelled branch wins while send_chat is pending (or before it
\* is first polled).
CancelledReturn(r) ==
    /\ req[r].cancelled
    /\ \/ req[r].pc \in {"lease", "send"}
       \/ req[r].pc = "start" /\ req[r].i < attempt_limit(req[r].max_retries)
    /\ req' = [req EXCEPT ![r] = Returns(r, Err("RequestCancelled"))]
    /\ PoolUnchanged
    /\ UNCHANGED <<disk, now, mailbox, reports, vertex_credential, upstream, connVars, validation>>

\* The awaits of a request: the key lease, the upstream send, and the body read
\* and validation of check_empty_choices.
SuspensionPoints == {"lease", "send", "validate"}

\* handle_gemini_request, select! around try_chat: the cancelled branch wins
\* while try_chat is pending, at whichever of its awaits.
HandlerCancelled(r) ==
    /\ req[r].cancelled
    /\ req[r].pc \in SuspensionPoints
    /\ req' = [req EXCEPT ![r] = Returns(r, Err("RequestCancelled"))]
    /\ PoolUnchanged
    /\ UNCHANGED <<disk, now, mailbox, reports, vertex_credential, upstream, connVars, validation>>

\* A caller outside the modelled requests asks for a key and is dropped (its
\* request cancelled) before the actor answers.
DroppedRequest ==
    /\ actorAlive
    /\ RequestMsg(0) \notin Range(mailbox)
    /\ mailbox' = Append(mailbox, RequestMsg(0))
    /\ PoolUnchanged
    /\ UNCHANGED <<disk, now, req, reports, vertex_credential, upstream, connVars, validation>>

\* A spawned report task runs: with a key and a running actor it sends its
\* message; without, it ends.
ReportRun(task) ==
    /\ BagIn(task, reports)
    /\ reports' = reports (-) SetToBag({task})
    /\ mailbox' = IF task.key # None /\ actorAlive
                  THEN Append(mailbox, report_message(task, now))
                  ELSE mailbox
    /\ PoolUnchanged
    /\ UNCHANGED <<disk, now, req, vertex_credential, upstream, connVars, validation>>

\* ------------------------------------------------------------------ SpecChat

\* One request enters try_chat, on the direct or on the Vertex path, against a
\* pool of no, one or two keys.
InitChat ==
    /\ InitPool
    /\ queue \in {<<>>, <<NewKey("K1")>>, <<NewKey("K1"), NewKey("K2")>>}
    /\ \E vertex \in BOOLEAN :
          req = [r \in Reqs |-> IF r = 1 THEN NewReq(vertex, max_retries) ELSE IdleReq]
    /\ vertex_credential \in BOOLEAN
    /\ upstream = "any"

ChatProgress ==
    \/ \E r \in Reqs, buildOk \in BOOLEAN : BeginAttempt(r, buildOk)
    \/ \E r \in Reqs : LoopExit(r)
    \/ ActorHandle
    \/ \E r \in Reqs : LeaseLost(r)
    \/ \E r \in Reqs : \E o \in SendOutcomes(r) : SendChatEnds(r, o)
    \/ \E r \in Reqs, v \in ValidatorOutcomes : CheckEmptyChoicesEnds(r, v)
    \/ \E r \in Reqs : CancelledReturn(r)
    \/ \E r \in Reqs : HandlerCancelled(r)
    \/ \E task \in BagToSet(reports) : ReportRun(task)

NextChat ==
    \/ ChatProgress
    \/ \E r \in Reqs : CancelToken(r)
    \/ DroppedRequest
    \/ Tick

\* Every task that can run is scheduled, every pending upstream call ends (it
\* has a timeout), and the actor handles what is in its mailbox.
SpecChat == InitChat /\ [][NextChat]_vars /\ WF_vars(ChatProgress)

\* ------------------------------------------------------------------ SpecCancel

\* The request token is cancelled while the request is suspended at an await.
CancelAtAwait(r) == req[r].pc \in SuspensionPoints /\ CancelToken(r)

NextCancel ==
    \/ ChatProgress
    \/ \E r \in Reqs : CancelAtAwait(r)
    \/ DroppedRequest
    \/ Tick

\* SpecChat with cancellation arriving at the awaits only.
SpecCancel == InitChat /\ [][NextCancel]_vars /\ WF_vars(ChatProgress)

\* ------------------------------------------------------------------ connections

\* connection_monitor: a request arrives, its ConnectionInfo is created with a
\* new token and registered.
register_connection(c) ==
    /\ conn[c].mw = "idle"
    /\ registry' = registry \cup {c}
    /\ conn' = [conn EXCEPT ![c].mw = "handling"]
    /\ UNCHANGED shutdown
    /\ UNCHANGED <<keyVars, chatVars, fake, validation>>

\* cancel_connection(c), as it changes c's token: cancelled if c is registered.
cancel_connection(c) == conn[c].token \/ c \in registry

\* Mutant: the bridging task waits for the shutdown only.
bridge_fires_on_shutdown(global, connection) == global

\* The select! of the bridging task: either parent is cancelled.
bridge_fires(global, connection) == global \/ connection

\* Mutant: every response is taken for a streaming one.
is_streaming_response_always(resp) == TRUE

\* connection_monitor: the content type of the response is text/event-stream.
is_streaming_response(resp) == resp \in {"stream", "fake"}

\* The handler starts inside next.run: it composes its request token, spawning
\* the bridging task if it was given the connection token.
HandlerStart(c, has_token, mode) ==
    /\ conn[c].mw = "handling"
    /\ conn[c].handler = "none"
    /\ conn' = [conn EXCEPT ![c].handler = "running",
                            ![c].mode = mode,
                            ![c].has_token = has_token,
                            ![c].bridge = IF has_token THEN "running" ELSE "none"]
    /\ UNCHANGED <<shutdown, registry>>
    /\ UNCHANGED <<keyVars, chatVars, fake, validation>>

\* The bridging task: one of the two tokens it waits for is cancelled, and it
\* cancels the composite token and ends.
BridgeFires(c) ==
    /\ conn[c].bridge = "running"
    /\ bridge_fires(shutdown, conn[c].token)
    /\ conn' = [conn EXCEPT ![c].composite = TRUE, ![c].bridge = "done"]
    /\ UNCHANGED <<shutdown, registry>>
    /\ UNCHANGED <<keyVars, chatVars, fake, validation>>

\* The handler returns and with it next.run: the fake-streaming response at
\* once, otherwise the outcome of try_chat (or RequestCancelled); an error is
\* answered with a response that is not a stream.
HandlerReturns(c, ok) ==
    /\ conn[c].mw = "handling"
    /\ conn[c].handler = "running"
    /\ conn' = [conn EXCEPT ![c].handler = "done",
                            ![c].mw = "finish",
                            ![c].resp = IF conn[c].mode = "fake" THEN "fake"
                                        ELSE IF ok THEN conn[c].mode ELSE "plain"]
    /\ UNCHANGED <<shutdown, registry>>
    /\ UNCHANGED <<keyVars, chatVars, fake, validation>>

\* connection_monitor, select!: the connection token is cancelled while
\* next.run is pending; the handler is dropped and 499 is the response.
MwDisconnect(c) ==
    /\ conn[c].mw = "handling"
    /\ conn[c].token
    /\ conn' = [conn EXCEPT ![c].handler = "dropped",
                            ![c].mw = "finish",
                            ![c].resp = "499"]
    /\ UNCHANGED <<shutdown, registry>>
    /\ UNCHANGED <<keyVars, chatVars, fake, validation>>

\* connection_monitor, response not streaming: cancel_connection.
MwCancel(c) ==
    /\ conn[c].mw = "finish"
    /\ ~is_streaming_response(conn[c].resp)
    /\ conn' = [conn EXCEPT ![c].token = cancel_connection(c),
                            ![c].mw = "unregister"]
    /\ UNCHANGED <<shutdown, registry>>
    /\ UNCHANGED <<keyVars, chatVars, fake, validation>>

\* connection_monitor: unregister_connection, at once for a streaming
\* response and after the cancel otherwise; the response is returned and a
\* streaming body starts being sent.
MwUnregister(c) ==
    /\ \/ conn[c].mw = "unregister"
       \/ conn[c].mw = "finish" /\ is_streaming_response(conn[c].resp)
    /\ registry' = registry \ {c}
    /\ conn' = [conn EXCEPT ![c].mw = "returned",
                            ![c].body = IF conn[c].resp \in {"stream", "fake"}
                                        THEN "streaming" ELSE "-"]
    /\ UNCHANGED shutdown
    /\ UNCHANGED <<keyVars, chatVars, fake, validation>>

\* The upstream's stream has been passed on to its end.
StreamEnds(c) ==
    /\ conn[c].body = "streaming"
    /\ conn[c].resp = "stream"
    /\ conn' = [conn EXCEPT ![c].body = "ended"]
    /\ UNCHANGED <<shutdown, registry>>
    /\ UNCHANGED <<keyVars, chatVars, fake, validation>>

\* The fake stream runs to its end, on whichever path: if it was given the
\* connection id it calls cancel_connection on it.
FakeStreamEnds(c) ==
    /\ conn[c].body = "streaming"
    /\ conn[c].resp = "fake"
    /\ conn' = [conn EXCEPT ![c].body = "ended",
                            ![c].token = IF conn[c].has_token
                                         THEN cancel_connection(c) ELSE @]
    /\ UNCHANGED <<shutdown, registry>>
    /\ UNCHANGED <<keyVars, chatVars, fake, validation>>

\* SIGINT / SIGTERM: the process-wide token is cancelled.
Shutdown ==
    /\ ~shutdown
    /\ shutdown' = TRUE
    /\ UNCHANGED <<registry, conn>>
    /\ UNCHANGED <<keyVars, chatVars, fake, validation>>

\* ConnectionRegistry::cancel_connection, called for a connection whose
\* client is gone.
CancelConnection(c) ==
    /\ c \in registry
    /\ ~conn[c].token
    /\ conn' = [conn EXCEPT ![c].token = cancel_connection(c)]
    /\ UNCHANGED <<shutdown, registry>>
    /\ UNCHANGED <<keyVars, chatVars, fake, validation>>

\* ConnectionRegistry::cancel_all_connections
CancelAllConnections ==
    /\ \E c \in registry : ~conn[c].token
    /\ conn' = [c \in Conns |-> [conn[c] EXCEPT !.token = cancel_connection(c)]]
    /\ UNCHANGED <<shutdown, registry>>
    /\ UNCHANGED <<keyVars, chatVars, fake, validation>>

\* ConnectionRegistry::cleanup_cancelled_connections
CleanupCancelledConnections ==
    /\ \E c \in registry : conn[c].token
    /\ registry' = {c \in registry : ~conn[c].token}
    /\ UNCHANGED <<shutdown, conn>>
    /\ UNCHANGED <<keyVars, chatVars, fake, validation>>

\* The handler of c has composed its request token.
Started(c) == conn[c].mode # "-"

\* request_token.is_cancelled(): the token is a child of SHUTDOWN_TOKEN, or
\* the composite, a child of that child, which the bridging task cancels.
RequestTokenCancelled(c) == Started(c) /\ (shutdown \/ conn[c].composite)

\* ------------------------------------------------------------------ SpecConn

\* What the program does by itself, given a scheduler that runs every task.
ConnProgress ==
    \/ \E c \in Conns, has_token \in BOOLEAN, mode \in Modes : HandlerStart(c, has_token, mode)
    \/ \E c \in Conns : BridgeFires(c)
    \/ \E c \in Conns, ok \in BOOLEAN : HandlerReturns(c, ok)
    \/ \E c \in Conns : MwDisconnect(c)
    \/ \E c \in Conns : MwCancel(c)
    \/ \E c \in Conns : MwUnregister(c)
    \/ \E c \in Conns : StreamEnds(c)
    \/ \E c \in Conns : FakeStreamEnds(c)

\* What is done to it: requests arrive, clients go away, the process is told
\* to stop, the registry is swept.
ConnEnvironment ==
    \/ \E c \in Conns : register_connection(c)
    \/ Shutdown
    \/ \E c \in Conns : CancelConnection(c)
    \/ CancelAllConnections
    \/ CleanupCancelledConnections

NextConn == ConnProgress \/ ConnEnvironment

\* No request has arrived; the key pool, which no step here touches, is empty.
InitConn ==
    /\ Init
    /\ queue = <<>>

SpecConn == InitConn /\ [][NextConn]_vars /\ WF_vars(ConnProgress)

\* ------------------------------------------------------------------ fake streaming

\* The connections answered by a detailed fake stream when one is followed alone.
FakeConns == {1}

\* The bodies check_empty_choices lets through when no tag is required, as the
\* sequence of the kinds of the first candidate's parts ("text" for a part
\* with a text field, "data" for any other; <<>> for no content with
\* finishReason STOP), and for OpenAI of the first choice's message.content (a
\* string, or none).
Bodies(format) ==
    IF format = "Gemini"
    THEN {<<>>, <<"text">>, <<"text", "data">>, <<"data", "text">>}
    ELSE {<<>>, <<"text">>}

\* convert_gemini_to_stream: a content chunk and a final chunk if the first
\* part of the first candidate has a text, nothing otherwise.
convert_gemini_to_stream(body) ==
    IF Len(body) > 0 /\ body[1] = "text" THEN <<"content", "terminal">> ELSE <<>>

\* convert_openai_to_stream: a content chunk, a final chunk and [DONE] if the
\* first choice's message.content is a string, nothing otherwise.
convert_openai_to_stream(body) ==
    IF Len(body) > 0 /\ body[1] = "text" THEN <<"content", "terminal", "done">> ELSE <<>>

\* response_to_stream_chunks
response_to_stream_chunks(format, body) ==
    IF format = "OpenAI" THEN convert_openai_to_stream(body)
    ELSE convert_gemini_to_stream(body)

\* The stream body is not being polled any more: it ended or was dropped, and
\* keep_alive_rx with it.
receiver_dropped(c) == fake[c].main \in {"ended", "aborted", "dropped"}

\* Mutant: a send into a channel whose receiver is gone succeeds.
send_fails_never(c) == FALSE

\* tx.send(..).await.is_err()
send_fails(c) == receiver_dropped(c)

\* The keep-alive task is running.
KeepAliveLive(c) == fake[c].ka \in {"initial", "loop", "sending"}

\* The first poll of the body: the channel is created, the keep-alive task is
\* spawned with its interval, whose first tick is ready at once, api_future is
\* built and the loop is entered.
FakeStreamStarts(c, format) ==
    /\ conn[c].body = "streaming"
    /\ conn[c].resp = "fake"
    /\ fake[c].main = "unpolled"
    /\ fake' = [fake EXCEPT ![c].main = "select",
                            ![c].ka = "initial",
                            ![c].due = TRUE,
                            ![c].api = "running",
                            ![c].format = format]
    /\ UNCHANGED <<shutdown, registry, conn>>
    /\ UNCHANGED <<keyVars, chatVars, validation>>

\* tx.send of the keep-alive task: it fails if the receiver is gone, puts the
\* frame into the channel if there is room and waits for room otherwise.
keep_alive_send(c, blocked) ==
    IF send_fails(c) THEN [fake[c] EXCEPT !.ka = "exited"]
    ELSE IF fake[c].chan < KeepAliveCapacity
         THEN [fake[c] EXCEPT !.chan = @ + 1, !.ka = "loop"]
         ELSE [fake[c] EXCEPT !.ka = blocked]

\* The keep-alive task sends its first frame, before any tick.
KeepAliveInitial(c) ==
    /\ fake[c].ka = "initial"
    /\ ~fake[c].abort
    /\ send_fails(c) \/ fake[c].chan < KeepAliveCapacity
    /\ fake' = [fake EXCEPT ![c] = keep_alive_send(c, "initial")]
    /\ UNCHANGED <<shutdown, registry, conn>>
    /\ UNCHANGED <<keyVars, chatVars, validation>>

\* The keep-alive task, select!: interval.tick() is ready and is the branch
\* taken; the frame is sent.
KeepAliveTick(c) ==
    /\ fake[c].ka = "loop"
    /\ fake[c].due
    /\ ~fake[c].abort
    /\ fake' = [fake EXCEPT ![c] = [keep_alive_send(c, "sending") EXCEPT !.due = FALSE]]
    /\ UNCHANGED <<shutdown, registry, conn>>
    /\ UNCHANGED <<keyVars, chatVars, validation>>

\* The keep-alive task was waiting for room in the channel: there is room, or
\* the receiver is gone.
KeepAliveUnblocked(c) ==
    /\ fake[c].ka = "sending"
    /\ ~fake[c].abort
    /\ send_fails(c) \/ fake[c].chan < KeepAliveCapacity
    /\ fake' = [fake EXCEPT ![c] = keep_alive_send(c, "sending")]
    /\ UNCHANGED <<shutdown, registry, conn>>
    /\ UNCHANGED <<keyVars, chatVars, validation>>

\* The keep-alive task, select!: cancellation_token.cancelled() is ready and is
\* the branch taken.
KeepAliveCancelled(c) ==
    /\ fake[c].ka = "loop"
    /\ ~fake[c].abort
    /\ RequestTokenCancelled(c)
    /\ fake' = [fake EXCEPT ![c].ka = "exited"]
    /\ UNCHANGED <<shutdown, registry, conn>>
    /\ UNCHANGED <<keyVars, chatVars, validation>>

\* keep_alive_handle.abort() takes effect at the await the task is at.
KeepAliveAborted(c) ==
    /\ KeepAliveLive(c)
    /\ fake[c].abort
    /\ fake' = [fake EXCEPT ![c].ka = "aborted"]
    /\ UNCHANGED <<shutdown, registry, conn>>
    /\ UNCHANGED <<keyVars, chatVars, validation>>

\* A keep-alive frame is still on its way to the client, or the body is not
\* waiting in its select!.
WorkPending(c) ==
    \/ fake[c].due
    \/ fake[c].chan > 0
    \/ fake[c].ka \in {"initial", "sending"}
    \/ fake[c].main # "select"

\* fake_streaming_interval goes by: a tick of the task's interval becomes
\* ready (ticks missed meanwhile are skipped).
IntervalElapses(c) ==
    /\ \/ fake[c].api = "running" /\ fake[c].elapsed < MaxTicks
       \/ fake[c].api # "running" /\ KeepAliveLive(c) /\ ~fake[c].due
    /\ fake' = [fake EXCEPT ![c].due = KeepAliveLive(c),
                            ![c].elapsed = IF fake[c].api = "running" /\ @ < MaxTicks
                                           THEN @ + 1 ELSE @,
                            ![c].late = @ \/ (fake[c].api = "running" /\ WorkPending(c))]
    /\ UNCHANGED <<shutdown, registry, conn>>
    /\ UNCHANGED <<keyVars, chatVars, validation>>

\* try_chat is ready with its result: a response that passed
\* check_empty_choices, or an error.
UpstreamCompletes(c, ok, body) ==
    /\ fake[c].api = "running"
    /\ fake[c].main \in {"select", "polled", "yield"}
    /\ body \in Bodies(fake[c].format)
    /\ fake' = [fake EXCEPT ![c].api = IF ok THEN "ok" ELSE "err",
                            ![c].body = IF ok THEN body ELSE @]
    /\ UNCHANGED <<shutdown, registry, conn>>
    /\ UNCHANGED <<keyVars, chatVars, validation>>

\* api_future, polled after the loop's own cancellation branch found the token
\* not cancelled: the token is cancelled by now and api_future is ready with
\* RequestCancelled.
ApiCancelled(c) ==
    /\ fake[c].main = "polled"
    /\ fake[c].api = "running"
    /\ RequestTokenCancelled(c)
    /\ fake' = [fake EXCEPT ![c].api = "cancelled"]
    /\ UNCHANGED <<shutdown, registry, conn>>
    /\ UNCHANGED <<keyVars, chatVars, validation>>

\* The body calls cancel_connection on the connection id it was given and is
\* not polled again.
stream_over(c) ==
    [conn EXCEPT ![c].body = "ended",
                 ![c].token = IF conn[c].has_token THEN cancel_connection(c) ELSE @]

\* The loop, biased select!, first branch: the token is cancelled.
\* cancel_connection, the sender is dropped, the task aborted, and the stream
\* yields an error and ends.
MainCancelled(c) ==
    /\ fake[c].main = "select"
    /\ RequestTokenCancelled(c)
    /\ fake' = [fake EXCEPT ![c].main = "aborted",
                            ![c].abort = TRUE,
                            ![c].out = Append(@, "Err")]
    /\ conn' = stream_over(c)
    /\ UNCHANGED <<shutdown, registry>>
    /\ UNCHANGED <<keyVars, chatVars, validation>>

\* Mutant: a select! that is not biased goes on to the other branches with
\* the token cancelled.
MainPolls_unbiased(c) ==
    /\ fake[c].main = "select"
    /\ fake[c].api \in {"ok", "err"} \/ fake[c].chan > 0
    /\ fake' = [fake EXCEPT ![c].main = "polled"]
    /\ UNCHANGED <<shutdown, registry, conn>>
    /\ UNCHANGED <<keyVars, chatVars, validation>>

\* The loop is woken, by api_future or by the channel, and finds the token not
\* cancelled: it goes on to poll the other two branches.
MainPolls(c) ==
    /\ fake[c].main = "select"
    /\ ~RequestTokenCancelled(c)
    /\ fake[c].api \in {"ok", "err"} \/ fake[c].chan > 0
    /\ fake' = [fake EXCEPT ![c].main = "polled"]
    /\ UNCHANGED <<shutdown, registry, conn>>
    /\ UNCHANGED <<keyVars, chatVars, validation>>

\* What the stream yields for the result of api_future: the converted
\* response, or create_error_chunk's frame.
result_frames(f) ==
    IF f.api = "ok" THEN response_to_stream_chunks(f.format, f.body)
    ELSE <<"error">>

\* Mutant: the loop goes on after the result was yielded, without its break
\* and without stopping the keep-alive task.
MainApi_no_break(c) ==
    /\ fake[c].main = "polled"
    /\ fake[c].api \in {"ok", "err", "cancelled"}
    /\ fake' = [fake EXCEPT ![c].main = "yield",
                            ![c].api = "running",
                            ![c].out = @ \o result_frames(fake[c])]
    /\ UNCHANGED <<shutdown, registry, conn>>
    /\ UNCHANGED <<keyVars, chatVars, validation>>

\* The loop, second branch: api_future is ready. The sender is dropped, the
\* task aborted, the result is yielded as frames, cancel_connection is called
\* and the stream ends.
MainApi(c) ==
    /\ fake[c].main = "polled"
    /\ fake[c].api \in {"ok", "err", "cancelled"}
    /\ fake' = [fake EXCEPT ![c].main = "ended",
                            ![c].abort = TRUE,
                            ![c].out = @ \o result_frames(fake[c])]
    /\ conn' = stream_over(c)
    /\ UNCHANGED <<shutdown, registry>>
    /\ UNCHANGED <<keyVars, chatVars, validation>>

\* The loop, third branch: api_future is pending and the channel has a frame,
\* which is yielded to the client.
MainRecv(c) ==
    /\ fake[c].main = "polled"
    /\ fake[c].api = "running"
    /\ fake[c].chan > 0
    /\ fake' = [fake EXCEPT ![c].main = "yield",
                            ![c].chan = @ - 1,
                            ![c].out = Append(@, "keepalive")]
    /\ UNCHANGED <<shutdown, registry, conn>>
    /\ UNCHANGED <<keyVars, chatVars, validation>>

\* The client has taken the frame and the body is polled again: back in the
\* loop's select!.
ClientPolls(c) ==
    /\ fake[c].main = "yield"
    /\ fake' = [fake EXCEPT ![c].main = "select"]
    /\ UNCHANGED <<shutdown, registry, conn>>
    /\ UNCHANGED <<keyVars, chatVars, validation>>

\* The client goes away: the body is dropped where it is suspended, and with
\* it api_future, the sender, the receiver and the task's handle (which
\* detaches the task).
ClientDrops(c) ==
    /\ fake[c].main \in {"select", "yield"}
    /\ fake' = [fake EXCEPT ![c].main = "dropped",
                            ![c].api = "dropped"]
    /\ conn' = [conn EXCEPT ![c].body = "dropped"]
    /\ UNCHANGED <<shutdown, registry>>
    /\ UNCHANGED <<keyVars, chatVars, validation>>

\* ------------------------------------------------------------------ SpecFake

\* The tasks of the program, which the scheduler runs, the upstream, which
\* answers, and time, which passes.
FakeProgress ==
    \/ \E c \in FakeConns, has_token \in BOOLEAN : HandlerStart(c, has_token, "fake")
    \/ \E c \in FakeConns : BridgeFires(c)
    \/ \E c \in FakeConns : HandlerReturns(c, TRUE)
    \/ \E c \in FakeConns : MwDisconnect(c)
    \/ \E c \in FakeConns : MwCancel(c)
    \/ \E c \in FakeConns : MwUnregister(c)
    \/ \E c \in FakeConns, format \in Formats : FakeStreamStarts(c, format)
    \/ \E c \in FakeConns : KeepAliveInitial(c)
    \/ \E c \in FakeConns : KeepAliveTick(c)
    \/ \E c \in FakeConns : KeepAliveUnblocked(c)
    \/ \E c \in FakeConns : KeepAliveCancelled(c)
    \/ \E c \in FakeConns : KeepAliveAborted(c)
    \/ \E c \in FakeConns : IntervalElapses(c)
    \/ \E c \in FakeConns, ok \in BOOLEAN, body \in Bodies("Gemini") : UpstreamCompletes(c, ok, body)
    \/ \E c \in FakeConns : ApiCancelled(c)
    \/ \E c \in FakeConns : MainCancelled(c)
    \/ \E c \in FakeConns : MainPolls(c)
    \/ \E c \in FakeConns : MainApi(c)
    \/ \E c \in FakeConns : MainRecv(c)

\* The client, which may stall or go away, and what is done to the process.
FakeEnvironment ==
    \/ \E c \in FakeConns : register_connection(c)
    \/ \E c \in FakeConns : ClientPolls(c)
    \/ \E c \in FakeConns : ClientDrops(c)
    \/ \E c \in FakeConns : CancelConnection(c)
    \/ Shutdown

NextFake == FakeProgress \/ FakeEnvironment

SpecFake == InitConn /\ [][NextFake]_vars /\ WF_vars(FakeProgress)

\* ------------------------------------------------------------------ SpecS6

\* The dialect of the request on connection c, one of each.
FormatOf(c) == IF c = 1 THEN "Gemini" ELSE "OpenAI"

\* Scenario S6: two fake-streaming requests whose upstream calls stay in
\* flight, clients that take every frame, and the shutdown.
NextS6 ==
    \/ \E c \in Conns : register_connection(c)
    \/ \E c \in Conns, has_token \in BOOLEAN : HandlerStart(c, has_token, "fake")
    \/ \E c \in Conns : HandlerReturns(c, TRUE)
    \/ \E c \in Conns : MwUnregister(c)
    \/ \E c \in Conns : FakeStreamStarts(c, FormatOf(c))
    \/ \E c \in Conns : KeepAliveInitial(c)
    \/ \E c \in Conns : KeepAliveTick(c)
    \/ \E c \in Conns : KeepAliveCancelled(c)
    \/ \E c \in Conns : KeepAliveAborted(c)
    \/ \E c \in Conns : MainPolls(c)
    \/ \E c \in Conns : MainRecv(c)
    \/ \E c \in Conns : ClientPolls(c)
    \/ \E c \in Conns : ApiCancelled(c)
    \/ \E c \in Conns : MainApi(c)
    \/ \E c \in Conns : MainCancelled(c)
    \/ \E c \in Conns : BridgeFires(c)
    \/ Shutdown

SpecS6 == InitConn /\ [][NextS6]_vars /\ WF_vars(NextS6)

\* ------------------------------------------------------------------ tag validators

\* Texts are sequences of characters, a character a string of length one.
Uppercase == <<"A", "B", "C", "D", "E", "F", "G", "H", "I", "J", "K", "L", "M",
               "N", "O", "P", "Q", "R", "S", "T", "U", "V", "W", "X", "Y", "Z">>
Lowercase == <<"a", "b", "c", "d", "e", "f", "g", "h", "i", "j", "k", "l", "m",
               "n", "o", "p", "q", "r", "s", "t", "u", "v", "w", "x", "y", "z">>
Digits == {"0", "1", "2", "3", "4", "5", "6", "7", "8", "9"}
Whitespace == {" ", "\t", "\n", "\r"}

\* The backtick character, which a TLA+ string cannot hold.
Backtick == "backtick"

\* char::to_ascii_lowercase
to_ascii_lowercase(ch) ==
    IF \E k \in 1..26 : Uppercase[k] = ch
    THEN Lowercase[CHOOSE k \in 1..26 : Uppercase[k] = ch]
    ELSE ch

\* str::to_ascii_lowercase
lowercase(s) == [k \in 1..Len(s) |-> to_ascii_lowercase(s[k])]

\* Mutant: characters are compared byte for byte.
eq_exact(a, b) == a = b

\* char::eq_ignore_ascii_case
eq_ignore_ascii_case(a, b) == to_ascii_lowercase(a) = to_ascii_lowercase(b)

\* char::is_alphabetic and char::is_alphanumeric, on ASCII
is_alphabetic(ch) == \E k \in 1..26 : ch = Uppercase[k] \/ ch = Lowercase[k]
is_alphanumeric(ch) == is_alphabetic(ch) \/ ch \in Digits

\* The characters the scanner takes for part of a tag name.
is_name_char(ch) == is_alphanumeric(ch) \/ ch = "-" \/ ch = "_"

\* s[from..], the rest of s from position from on
SubSeqFrom(s, from) == SubSeq(s, from, Len(s))

\* pat occurs in s at position p
occurs_at(s, p, pat) ==
    /\ p + Len(pat) - 1 <= Len(s)
    /\ \A k \in 1..Len(pat) : s[p + k - 1] = pat[k]

\* str::contains
contains(s, pat) == \E p \in 1..(Len(s) + 1) : occurs_at(s, p, pat)

\* str::matches(pat).count(): the matches that do not overlap, from the left
RECURSIVE count_from(_, _, _)
count_from(s, p, pat) ==
    IF p + Len(pat) - 1 > Len(s) THEN 0
    ELSE IF occurs_at(s, p, pat) THEN 1 + count_from(s, p + Len(pat), pat)
    ELSE count_from(s, p + 1, pat)

matches_count(s, pat) == count_from(s, 1, pat)

\* str::trim
RECURSIVE trim_start(_)
trim_start(s) ==
    IF s # <<>> /\ Head(s) \in Whitespace THEN trim_start(Tail(s)) ELSE s

RECURSIVE trim_end(_)
trim_end(s) ==
    IF s # <<>> /\ s[Len(s)] \in Whitespace THEN trim_end(SubSeq(s, 1, Len(s) - 1)) ELSE s

trim(s) == trim_end(trim_start(s))

\* str::split(','), each piece trimmed
RECURSIVE split_trim(_, _)
split_trim(s, piece) ==
    IF s = <<>> THEN <<trim(piece)>>
    ELSE IF Head(s) = "," THEN <<trim(piece)>> \o split_trim(Tail(s), <<>>)
    ELSE split_trim(Tail(s), Append(piece, Head(s)))

\* The configured names: split(',').map(trim).filter(not empty).collect()
parse_tags(tags_to_check) ==
    SelectSeq(split_trim(tags_to_check, <<>>), LAMBDA t : t # <<>>)

\* remove_comments, the loop that skips a comment: the position after its
\* "-->", or 0 if the comment is not closed.
RECURSIVE comment_end(_, _)
comment_end(chars, k) ==
    IF k > Len(chars) THEN 0
    ELSE IF chars[k] = "-" /\ k + 1 <= Len(chars) /\ chars[k + 1] = "-"
         THEN IF k + 2 <= Len(chars) /\ chars[k + 2] = ">" THEN k + 3
              ELSE comment_end(chars, k + 2)
    ELSE comment_end(chars, k + 1)

\* remove_comments from position k on, given what was kept so far; the whole
\* result is empty when a comment is not closed.
RECURSIVE remove_comments_from(_, _, _, _)
remove_comments_from(chars, k, in_backticks, kept) ==
    IF k > Len(chars) THEN kept
    ELSE IF chars[k] = Backtick THEN remove_comments_from(chars, k + 1, ~in_backticks, kept)
    ELSE IF in_backticks THEN remove_comments_from(chars, k + 1, TRUE, kept)
    ELSE IF chars[k] # "<" THEN remove_comments_from(chars, k + 1, FALSE, Append(kept, chars[k]))
    ELSE IF ~(k + 1 <= Len(chars) /\ chars[k + 1] = "!")
         THEN remove_comments_from(chars, k + 1, FALSE, Append(kept, "<"))
    ELSE IF ~(k + 2 <= Len(chars) /\ chars[k + 2] = "-")
         THEN remove_comments_from(chars, k + 2, FALSE, kept \o <<"<", "!">>)
    ELSE IF ~(k + 3 <= Len(chars) /\ chars[k + 3] = "-")
         THEN remove_comments_from(chars, k + 3, FALSE, kept \o <<"<", "!", "-">>)
    ELSE LET e == comment_end(chars, k + 4)
         IN  IF e = 0 THEN <<>>
             ELSE remove_comments_from(chars, e, FALSE, kept)

remove_comments(content) == remove_comments_from(content, 1, FALSE, <<>>)

\* find_tag_end: tag stands at start, letter case aside, and ends with '>':
\* the position of its last character, 0 for None.
find_tag_end(chars, start, tag) ==
    IF start + Len(tag) - 1 > Len(chars) THEN 0
    ELSE IF \E k \in 1..Len(tag) : ~eq_ignore_ascii_case(chars[start + k - 1], tag[k]) THEN 0
    ELSE IF tag[Len(tag)] = ">" THEN start + Len(tag) - 1
    ELSE 0

\* The position of the next quote character at or after k, past the end if none.
RECURSIVE quote_end(_, _, _)
quote_end(chars, k, quote) ==
    IF k > Len(chars) \/ chars[k] = quote THEN k
    ELSE quote_end(chars, k + 1, quote)

Quotes == {"\"", "'"}

\* find_opening_tag_end, the loop that looks for the tag's '>': its position,
\* 0 for None (no '>', an unclosed quote, or a self-closing tag).
RECURSIVE opening_tag_scan(_, _)
opening_tag_scan(chars, k) ==
    IF k > Len(chars) THEN 0
    ELSE IF chars[k] = ">" THEN k
    ELSE IF chars[k] \in Quotes
         THEN LET q == quote_end(chars, k + 1, chars[k])
              IN  IF q > Len(chars) THEN 0 ELSE opening_tag_scan(chars, q + 1)
    ELSE IF chars[k] = "/" /\ k + 1 <= Len(chars) /\ chars[k + 1] = ">" THEN 0
    ELSE opening_tag_scan(chars, k + 1)

\* Mutant: any character may follow the tag name.
valid_separator_any(ch) == TRUE

\* find_opening_tag_end: the characters that may follow the tag name.
valid_separator(ch) == ch \in {" ", "\t", "\n", "\r", ">", "/"}

\* find_opening_tag_end: opening_tag stands at start, letter case aside, and
\* is followed by a separator: the position of the '>', 0 for None.
find_opening_tag_end(chars, start, opening_tag) ==
    IF start + Len(opening_tag) - 1 > Len(chars) THEN 0
    ELSE IF \E k \in 1..Len(opening_tag) :
                ~eq_ignore_ascii_case(chars[start + k - 1], opening_tag[k]) THEN 0
    ELSE LET next == start + Len(opening_tag)
         IN  IF next <= Len(chars) /\ ~valid_separator(chars[next]) THEN 0
             ELSE opening_tag_scan(chars, next)

\* The first position at or after k that holds no name character.
RECURSIVE name_end(_, _)
name_end(chars, k) ==
    IF k <= Len(chars) /\ is_name_char(chars[k]) THEN name_end(chars, k + 1) ELSE k

\* analyze_top_level_tags, the loop that looks for the '>' of a tag that is
\* not tracked, skipping quoted attribute values: its position, past the end
\* if none.
RECURSIVE other_tag_scan(_, _)
other_tag_scan(chars, k) ==
    IF k > Len(chars) \/ chars[k] = ">" THEN k
    ELSE IF chars[k] \in Quotes
         THEN LET q == quote_end(chars, k + 1, chars[k])
              IN  other_tag_scan(chars, IF q <= Len(chars) THEN q + 1 ELSE q)
    ELSE other_tag_scan(chars, k + 1)

\* What the scanner makes of the '<' at position i: kind "closing", "opening",
\* "self_closing", "skip" (a self-closing tag that is not tracked), "none" (no
\* tag: the scan goes on at i + 1) or "panic" (chars[i + 1] is read past the
\* end); tag is the tracked name matched, <<>> for a tag that is not tracked;
\* next is where the scan goes on.
NoMatch(i) == [kind |-> "none", tag |-> <<>>, next |-> i + 1]

\* The first of the configured tags for which as_tag says the '<' at i is that
\* tag, 0 if there is none.
first_tag(tags, holds(_)) ==
    IF \E t \in 1..Len(tags) : holds(tags[t])
    THEN CHOOSE t \in 1..Len(tags) : holds(tags[t]) /\ \A u \in 1..(t - 1) : ~holds(tags[u])
    ELSE 0

closing_tag(tag) == <<"<", "/">> \o tag \o <<">">>
self_closing_tag(tag) == <<"<">> \o tag \o <<"/", ">">>
opening_tag(tag) == <<"<">> \o tag

match_closing(chars, i, tags) ==
    LET t == first_tag(tags, LAMBDA tag : find_tag_end(chars, i, closing_tag(tag)) # 0)
    IN  IF t # 0
        THEN [kind |-> "closing", tag |-> tags[t],
              next |-> find_tag_end(chars, i, closing_tag(tags[t])) + 1]
        ELSE IF i + 2 <= Len(chars) /\ is_alphabetic(chars[i + 2])
        THEN LET j == name_end(chars, i + 2)
             IN  IF j <= Len(chars) /\ chars[j] = ">"
                 THEN [kind |-> "closing", tag |-> <<>>, next |-> j + 1]
                 ELSE NoMatch(i)
        ELSE NoMatch(i)

match_opening(chars, i, tags) ==
    LET t == first_tag(tags, LAMBDA tag :
                 \/ find_tag_end(chars, i, self_closing_tag(tag)) # 0
                 \/ find_opening_tag_end(chars, i, opening_tag(tag)) # 0)
    IN  IF t # 0
        THEN IF find_tag_end(chars, i, self_closing_tag(tags[t])) # 0
             THEN [kind |-> "self_closing", tag |-> tags[t],
                   next |-> find_tag_end(chars, i, self_closing_tag(tags[t])) + 1]
             ELSE [kind |-> "opening", tag |-> tags[t],
                   next |-> find_opening_tag_end(chars, i, opening_tag(tags[t])) + 1]
        ELSE IF i + 1 > Len(chars) THEN [kind |-> "panic", tag |-> <<>>, next |-> i]
        ELSE IF is_alphabetic(chars[i + 1])
        THEN LET j == other_tag_scan(chars, name_end(chars, i + 1))
             IN  IF j <= Len(chars)
                 THEN IF chars[j - 1] = "/"
                      THEN [kind |-> "skip", tag |-> <<>>, next |-> j + 1]
                      ELSE [kind |-> "opening", tag |-> <<>>, next |-> j + 1]
                 ELSE NoMatch(i)
        ELSE NoMatch(i)

match_tag(chars, i, tags) ==
    IF i + 1 <= Len(chars) /\ chars[i + 1] = "/" THEN match_closing(chars, i, tags)
    ELSE match_opening(chars, i, tags)

\* The scanner's variables: the names found at top level in the order found,
\* those pushed as balanced (self-closing), top_level_balance with the names
\* it has an entry for, and nesting_depth.
NewScan ==
    [result |-> <<>>, pushed_true |-> {}, counted |-> {}, balance |-> <<>>,
     nesting_depth |-> 0, panic |-> FALSE]

\* result.push((tag, flag)) unless the name is there
push(st, tag, flag) ==
    IF \E k \in 1..Len(st.result) : st.result[k] = tag THEN st
    ELSE [st EXCEPT !.result = Append(@, tag),
                    !.pushed_true = IF flag THEN @ \cup {tag} ELSE @]

\* top_level_balance[tag], 0 without an entry
balance_of(st, tag) ==
    IF \E k \in 1..Len(st.balance) : st.balance[k][1] = tag
    THEN (CHOOSE p \in {st.balance[k] : k \in 1..Len(st.balance)} : p[1] = tag)[2]
    ELSE 0

\* *top_level_balance.entry(tag).or_insert(0) += d
add_balance(st, tag, d) ==
    [st EXCEPT !.counted = @ \cup {tag},
               !.balance = IF tag \in st.counted
                           THEN [k \in 1..Len(@) |->
                                    IF @[k][1] = tag THEN <<tag, @[k][2] + d>> ELSE @[k]]
                           ELSE Append(@, <<tag, d>>)]

\* What a matched tag does to the scanner's variables.
apply_tag(st, m) ==
    IF m.kind = "self_closing"
    THEN IF st.nesting_depth = 0 THEN push(st, m.tag, TRUE) ELSE st
    ELSE IF m.kind = "closing"
    THEN IF m.tag # <<>>
         THEN LET d == [st EXCEPT !.nesting_depth = @ - 1]
              IN  IF d.nesting_depth = 0 THEN push(add_balance(d, m.tag, -1), m.tag, FALSE)
                  ELSE d
         ELSE IF st.nesting_depth > 0 THEN [st EXCEPT !.nesting_depth = @ - 1] ELSE st
    ELSE IF m.kind = "opening"
    THEN IF m.tag # <<>>
         THEN [(IF st.nesting_depth = 0 THEN push(add_balance(st, m.tag, 1), m.tag, FALSE)
                ELSE st) EXCEPT !.nesting_depth = @ + 1]
         ELSE [st EXCEPT !.nesting_depth = @ + 1]
    ELSE st

\* analyze_top_level_tags, the while loop from position i on
RECURSIVE scan(_, _, _, _)
scan(chars, i, tags, st) ==
    IF i > Len(chars) THEN st
    ELSE IF chars[i] # "<" THEN scan(chars, i + 1, tags, st)
    ELSE LET m == match_tag(chars, i, tags)
         IN  IF m.kind = "panic" THEN [st EXCEPT !.panic = TRUE]
             ELSE scan(chars, m.next, tags, apply_tag(st, m))

\* analyze_top_level_tags: the (name, is_balanced) pairs, or a panic.
analyze_top_level_tags(content, tags) ==
    LET without == remove_comments(content)
    IN  IF contains(content, <<"<", "!", "-", "-">>) /\ without = <<>>
        THEN [panic |-> FALSE, tags |-> <<>>]
        ELSE LET st == scan(without, 1, tags, NewScan)
             IN  [panic |-> st.panic,
                  tags |-> [k \in 1..Len(st.result) |->
                              [name |-> st.result[k],
                               is_balanced |->
                                   IF st.result[k] \in st.counted
                                   THEN balance_of(st, st.result[k]) = 0
                                   ELSE st.result[k] \in st.pushed_true]]]

\* A bool as the verdict of a validator, which can also panic.
Verdict(b) == IF b THEN "true" ELSE "false"

\* check_tags_closed
check_tags_closed(content, tags_to_check) ==
    LET tags == parse_tags(tags_to_check)
        a == analyze_top_level_tags(content, tags)
    IN  IF tags = <<>> THEN "true"
        ELSE IF /\ contains(content, <<"<", "!", "-", "-">>)
                /\ matches_count(content, <<"<", "!", "-", "-">>)
                     # matches_count(content, <<"-", "-", ">">>)
        THEN "false"
        ELSE IF a.panic THEN "panic"
        ELSE Verdict(\A k \in 1..Len(a.tags) : a.tags[k].is_balanced)

\* check_required_tags_exist
check_required_tags_exist(content, required_tags) ==
    LET tags == parse_tags(required_tags)
        a == analyze_top_level_tags(content, tags)
    IN  IF tags = <<>> THEN "true"
        ELSE IF \E t \in 1..Len(tags) : ~contains(content, opening_tag(tags[t])) THEN "false"
        ELSE IF a.panic THEN "panic"
        ELSE Verdict(\A t \in 1..Len(tags) :
                        \E k \in 1..Len(a.tags) :
                            a.tags[k].name = tags[t] /\ a.tags[k].is_balanced)

\* ------------------------------------------------------------------ SpecTags

\* The longest text, in tokens, among the texts tried exhaustively.
MaxToks == 3

\* Tag names.
name_a == <<"a">>
name_ab == <<"a", "b">>
name_A == <<"A">>
name_B == <<"B">>
name_div == <<"d", "i", "v">>
name_DIV == <<"D", "I", "V">>
name_broken == <<"b", "r", "o", "k", "e", "n">>
name_content == <<"c", "o", "n", "t", "e", "n", "t">>
name_answer == <<"a", "n", "s", "w", "e", "r">>
name_think == <<"t", "h", "i", "n", "k">>
name_thinking == <<"t", "h", "i", "n", "k", "i", "n", "g">>

\* The pieces texts are made of: an opening, closing or self-closing tag, a
\* character of plain text, a lone '<'.
Open(name) == [kind |-> "open", name |-> name]
Close(name) == [kind |-> "close", name |-> name]
SelfClose(name) == [kind |-> "self", name |-> name]
Plain == [kind |-> "text", name |-> <<"x">>]
Lt == [kind |-> "text", name |-> <<"<">>]

\* The text of a token, and of a sequence of tokens.
render_token(tok) ==
    CASE tok.kind = "open" -> <<"<">> \o tok.name \o <<">">>
      [] tok.kind = "close" -> <<"<", "/">> \o tok.name \o <<">">>
      [] tok.kind = "self" -> <<"<">> \o tok.name \o <<"/", ">">>
      [] OTHER -> tok.name

RECURSIVE render(_)
render(toks) == IF toks = <<>> THEN <<>> ELSE render_token(Head(toks)) \o render(Tail(toks))

\* A comma-separated configuration value.
RECURSIVE join(_)
join(names) ==
    IF names = <<>> THEN <<>>
    ELSE IF Len(names) = 1 THEN names[1]
    ELSE names[1] \o <<",">> \o join(Tail(names))

\* The tokens of the texts tried exhaustively, and the tags configured for them.
Tokens ==
    {Open(name_a), Close(name_a), Open(name_ab), Close(name_ab), Open(name_A),
     Close(name_A), SelfClose(name_a), Plain, Lt}

Configs == {join(<<name_a>>), <<" ">> \o join(<<name_a, name_ab>>)}

\* A text given as tokens with the tags configured for it.
Input(toks, names) == [toks |-> toks, tags |-> join(names)]

\* The texts of the spec's laws and scenarios and of the program's tests.
Corpus ==
    {Input(<<>>, <<>>),
     Input(<<Open(name_A), Close(name_A)>>, <<name_A>>),
     Input(<<Open(name_A), Plain>>, <<name_A>>),
     Input(<<Open(name_A), Open(name_B), Close(name_A), Close(name_B)>>, <<name_A>>),
     Input(<<Open(name_A), Open(name_broken), Plain, Close(name_A)>>, <<name_A>>),
     Input(<<Open(name_think), Plain, Close(name_think)>>, <<name_thinking>>),
     Input(<<Open(name_thinking), Plain, Close(name_thinking)>>, <<name_think>>),
     Input(<<Open(name_thinking), Plain, Close(name_think)>>, <<name_think>>),
     Input(<<Open(name_content), Open(name_answer), Close(name_content)>>,
           <<name_content, name_answer>>),
     Input(<<Open(name_content), Open(name_answer), Close(name_answer), Close(name_content)>>,
           <<name_content, name_answer>>),
     Input(<<Open(name_thinking), Plain, Close(name_thinking),
             Open(name_content), Plain, Close(name_content)>>,
           <<name_thinking, name_content>>),
     Input(<<Open(name_content), Open(name_thinking), Plain, Close(name_thinking),
             Close(name_content)>>,
           <<name_thinking, name_content>>),
     Input(<<Open(name_DIV), Plain, Close(name_DIV)>>, <<name_div>>),
     Input(<<Open(name_DIV), Plain>>, <<name_div>>),
     Input(<<Open(name_div), Close(name_div), Open(name_DIV)>>, <<name_div>>),
     Input(<<Close(name_answer), Open(name_div), Open(name_answer), Plain,
             Close(name_answer), Close(name_div)>>,
           <<name_answer>>)}

\* The token sequences of at most MaxToks tokens.
TokenSeqs == UNION {[1..n -> Tokens] : n \in 0..MaxToks}

TagInputs == Corpus \cup {[toks |-> toks, tags |-> cfg] : toks \in TokenSeqs, cfg \in Configs}

\* A response text arrives to be validated against the configured tags.
ResponseText(input) ==
    /\ validation = IdleValidation
    /\ validation' = [IdleValidation EXCEPT !.toks = input.toks,
                                            !.content = render(input.toks),
                                            !.tags = input.tags,
                                            !.closed = "?", !.exist = "?"]
    /\ UNCHANGED <<keyVars, chatVars, connVars>>

\* check_tags_closed is called on the text.
CheckTagsClosed ==
    /\ validation.closed = "?"
    /\ validation' = [validation EXCEPT
                          !.closed = check_tags_closed(validation.content, validation.tags)]
    /\ UNCHANGED <<keyVars, chatVars, connVars>>

\* check_required_tags_exist is called on the text.
CheckRequiredTagsExist ==
    /\ validation.exist = "?"
    /\ validation' = [validation EXCEPT
                          !.exist = check_required_tags_exist(validation.content, validation.tags)]
    /\ UNCHANGED <<keyVars, chatVars, connVars>>

NextTags ==
    \/ \E input \in TagInputs : ResponseText(input)
    \/ CheckTagsClosed
    \/ CheckRequiredTagsExist

SpecTags == InitConn /\ [][NextTags]_vars

\* ------------------------------------------------------------------ SpecValidate

\* The most parts a candidate's content has.
MaxParts == 2

\* validate_required_tags, the name of the tag at a '<': the characters from k
\* up to a '>', a white space or a '/'.
RECURSIVE tag_name_end(_, _)
tag_name_end(chars, k) ==
    IF k > Len(chars) \/ chars[k] \in Whitespace \cup {">", "/"} THEN k
    ELSE tag_name_end(chars, k + 1)

\* validate_required_tags: the position of the next '>' at or after k, past
\* the end if there is none.
RECURSIVE next_gt(_, _)
next_gt(chars, k) ==
    IF k > Len(chars) \/ chars[k] = ">" THEN k ELSE next_gt(chars, k + 1)

\* validate_required_tags, the tag that starts at the '<' at i: its kind, its
\* name and the position after it; kind "none" for a '<' that starts no tag.
parse_tag(chars, i) ==
    LET closing == i + 1 <= Len(chars) /\ chars[i + 1] = "/"
        from == IF closing THEN i + 2 ELSE i + 1
        to == tag_name_end(chars, from)
        gt == next_gt(chars, to)
    IN  IF to = from \/ gt > Len(chars)
        THEN [kind |-> "none", name |-> <<>>, next |-> i + 1]
        ELSE [kind |-> IF closing THEN "close"
                       ELSE IF chars[gt - 1] = "/" THEN "self" ELSE "open",
              name |-> SubSeq(chars, from, to - 1), next |-> gt + 1]

\* validate_required_tags, the walk over the characters: depth is the depth
\* counter, stack the open top-level tags, seen the recorded top-level names;
\* "mismatch" when a closing tag at depth 1 does not match the stack top. A
\* closing tag met deeper that names the stack top closes it over the tags
\* left open inside it (lenient nesting).
RECURSIVE validate_walk(_, _, _, _, _)
validate_walk(chars, i, depth, stack, seen) ==
    IF i > Len(chars)
    THEN [error |-> IF \E k \in 1..Len(stack) : ~stack[k].closed THEN "unclosed" ELSE "",
          seen |-> seen]
    ELSE IF chars[i] # "<" THEN validate_walk(chars, i + 1, depth, stack, seen)
    ELSE LET t == parse_tag(chars, i)
         IN  CASE t.kind = "open" ->
                    IF depth = 0
                    THEN validate_walk(chars, t.next, 1,
                                       <<[name |-> t.name, closed |-> FALSE]>> \o stack,
                                       seen \cup {t.name})
                    ELSE validate_walk(chars, t.next, depth + 1, stack, seen)
               [] t.kind = "self" ->
                    validate_walk(chars, t.next, depth, stack,
                                  IF depth = 0 THEN seen \cup {t.name} ELSE seen)
               [] t.kind = "close" ->
                    IF depth = 1
                    THEN IF stack # <<>> /\ Head(stack).name = t.name
                         THEN validate_walk(chars, t.next, 0, Tail(stack), seen)
                         ELSE [error |-> "mismatch", seen |-> seen]
                    ELSE IF depth > 1 /\ stack # <<>> /\ Head(stack).name = t.name
                    THEN validate_walk(chars, t.next, depth - 1,
                                       <<[Head(stack) EXCEPT !.closed = TRUE]>> \o Tail(stack),
                                       seen)
                    ELSE validate_walk(chars, t.next, IF depth > 0 THEN depth - 1 ELSE 0,
                                       stack, seen)
               [] OTHER -> validate_walk(chars, t.next, depth, stack, seen)

\* validate_required_tags(text, required): "Ok", or "Err" for a mismatch, an
\* unclosed top-level tag or a required name that is no top-level tag.
validate_required_tags(text, required) ==
    LET tags == parse_tags(required)
        w == validate_walk(text, 1, 0, <<>>, {})
    IN  IF w.error # "" THEN "Err"
        ELSE IF \E t \in 1..Len(tags) : tags[t] \notin w.seen THEN "Err"
        ELSE "Ok"

\* A part of a candidate's content: one with a text field, made of tokens, or
\* one without (inline data, a function call).
TextPart(toks) == [text |-> TRUE, toks |-> toks]
DataPart == [text |-> FALSE, toks |-> <<>>]

\* The texts of the parts tried.
PartTexts ==
    {<<>>,
     <<Plain>>,
     <<Open(name_a), Plain, Close(name_a)>>,
     <<Open(name_a)>>,
     <<Close(name_a)>>,
     <<Open(name_ab), Close(name_ab)>>,
     <<Open(name_a), Close(name_a), Open(name_ab), Close(name_ab)>>}

Parts == {DataPart} \cup {TextPart(toks) : toks \in PartTexts}

\* config.required_tags, the values tried.
RequiredTags == {<<>>, <<" ">>, join(<<name_a>>), join(<<name_a, name_ab>>)}

\* The buffered bodies that parse: Gemini bodies with no candidate, with a
\* first candidate without content, or with a content of up to MaxParts parts;
\* OpenAI bodies with no choice, or with a first choice whose message.content
\* is a string or is not.
GeminiBodies ==
    {[NoResponse EXCEPT !.format = "Gemini"]}
    \cup {[format |-> "Gemini", candidates |-> 1, has_content |-> FALSE, finish |-> f,
           parts |-> <<>>] : f \in {"STOP", "OTHER"}}
    \cup {[format |-> "Gemini", candidates |-> 1, has_content |-> TRUE, finish |-> f,
           parts |-> ps] : f \in {"STOP", "OTHER"},
                           ps \in UNION {[1..n -> Parts] : n \in 0..MaxParts}}

OpenAIBodies ==
    {[NoResponse EXCEPT !.format = "OpenAI"]}
    \cup {[format |-> "OpenAI", candidates |-> 1, has_content |-> FALSE, finish |-> f,
           parts |-> <<>>] : f \in {"stop", "OTHER"}}
    \cup {[format |-> "OpenAI", candidates |-> 1, has_content |-> TRUE, finish |-> f,
           parts |-> <<TextPart(toks)>>] : f \in {"stop", "OTHER"}, toks \in PartTexts}

\* check_empty_choices, Gemini: the first part with a text that fails
\* validate_required_tags raises EmptyChoices; parts without a text are skipped.
gemini_tags_verdict(resp, required) ==
    IF resp.has_content
       /\ \E p \in 1..Len(resp.parts) :
              /\ resp.parts[p].text
              /\ validate_required_tags(render(resp.parts[p].toks), required) = "Err"
    THEN "EmptyChoices"
    ELSE "Ok"

\* check_empty_choices, OpenAI: message.content is validated if it is a string.
openai_tags_verdict(resp, required) ==
    IF resp.has_content /\ validate_required_tags(render(resp.parts[1].toks), required) = "Err"
    THEN "EmptyChoices"
    ELSE "Ok"

\* check_empty_choices on a buffered body that parses.
check_empty_choices(resp, required) ==
    IF resp.format = "Gemini"
    THEN IF resp.candidates = 0 THEN "EmptyChoices"
         ELSE IF ~resp.has_content /\ resp.finish # "STOP" THEN "EmptyChoices"
         ELSE IF trim(required) # <<>> THEN gemini_tags_verdict(resp, required)
         ELSE "Ok"
    ELSE IF resp.candidates = 0 THEN "EmptyChoices"
         ELSE IF resp.finish = "OTHER" THEN "EmptyChoices"
         ELSE IF trim(required) # <<>> THEN openai_tags_verdict(resp, required)
         ELSE "Ok"

\* The upstream answers a buffered request with a body that parses.
ResponseBuffered(resp, required) ==
    /\ validation = IdleValidation
    /\ validation' = [IdleValidation EXCEPT !.resp = resp, !.tags = required, !.verdict = "?"]
    /\ UNCHANGED <<keyVars, chatVars, connVars>>

\* check_empty_choices decides on the body.
CheckEmptyChoices ==
    /\ validation.verdict = "?"
    /\ validation' = [validation EXCEPT
                          !.verdict = check_empty_choices(validation.resp, validation.tags)]
    /\ UNCHANGED <<keyVars, chatVars, connVars>>

NextValidate ==
    \/ \E resp \in GeminiBodies \cup OpenAIBodies, required \in RequiredTags :
           ResponseBuffered(resp, required)
    \/ CheckEmptyChoices

SpecValidate == InitConn /\ [][NextValidate]_vars

\* ------------------------------------------------------------------ SpecScenario

\* max_retries of the scenarios.
ScenarioRetries == 2

\* The scenarios: a request on the direct path against an upstream that answers
\* 429 a number of times below max_retries and then 200 ("transient"), against
\* one that answers 429 for K1 and 200 for K2 with the pool [K1, K2] ("S1"),
\* against one that answers 403 with the pool [K1] ("S2"); and a request on the
\* Vertex path with no credential configured.
InitScenario ==
    /\ InitPool
    /\ \/ /\ upstream = "transient"
          /\ queue \in {<<K1>>, <<K1, K2>>}
          /\ req = [r \in Reqs |-> IF r = 1 THEN NewReq(FALSE, ScenarioRetries) ELSE IdleReq]
          /\ vertex_credential = FALSE
       \/ /\ upstream = "S1"
          /\ queue = <<K1, K2>>
          /\ req = [r \in Reqs |-> IF r = 1 THEN NewReq(FALSE, ScenarioRetries) ELSE IdleReq]
          /\ vertex_credential = FALSE
       \/ /\ upstream = "S2"
          /\ queue = <<K1>>
          /\ req = [r \in Reqs |-> IF r = 1 THEN NewReq(FALSE, ScenarioRetries) ELSE IdleReq]
          /\ vertex_credential = FALSE
       \/ /\ upstream = "any"
          /\ queue \in {<<>>, <<K1>>, <<K1, K2>>}
          /\ req = [r \in Reqs |-> IF r = 1 THEN NewReq(TRUE, ScenarioRetries) ELSE IdleReq]
          /\ vertex_credential = FALSE

\* The scenarios run undisturbed: the client builds, the body of a 200 is
\* valid, nothing is cancelled, and the clock stands (a scenario is over before
\* a cooldown is).
NextScenario ==
    \/ \E r \in Reqs : BeginAttempt(r, TRUE)
    \/ \E r \in Reqs : LoopExit(r)
    \/ ActorHandle
    \/ \E r \in Reqs : \E o \in SendOutcomes(r) : SendChatEnds(r, o)
    \/ \E r \in Reqs : CheckEmptyChoicesEnds(r, OkResponse)
    \/ \E task \in BagToSet(reports) : ReportRun(task)
    \/ SaveTaskLoad
    \/ SaveTaskWrite

SpecScenario == InitScenario /\ [][NextScenario]_vars /\ WF_vars(NextScenario)

\* ------------------------------------------------------------------ claims

\* C1 Pool uniqueness: whatever messages the actor has handled, no two entries
\* of the queue carry the same secret.
PoolUnique ==
    \A i, j \in 1..Len(queue) : i # j => queue[i].key # queue[j].key

\* A Submit of a secret the pool already holds (under another status) has been
\* handled, in a pool of several keys.
PoolUniqueWitness ==
    /\ last.type = "Submit"
    /\ ~last.ok
    /\ Len(queue) >= 2
    /\ \E k \in Range(queue) : k.key = last.key /\ k.cooldown_until # None

RequestStep == \E replyOk \in BOOLEAN : Request(replyOk)

\* C2 Cooldown gating: a Request never hands out a key whose cooldown_until is
\* later than the clock, and it fails only when every key of the queue is in
\* that position: a key whose cooldown_until the clock has reached is eligible.
CooldownGating ==
    [][RequestStep =>
        IF last'.ok
        THEN \A k \in Range(queue) :
                k.key = last'.key =>
                    (k.cooldown_until = None \/ k.cooldown_until[1] <= now)
        ELSE \A k \in Range(queue) :
                k.cooldown_until # None /\ k.cooldown_until[1] > now]_vars

\* A Request has handed out a key whose cooldown had run out, passing over a
\* key that is still cooling down.
CooldownGatingWitness ==
    /\ last.type = "Request"
    /\ last.ok
    /\ Len(queue) >= 2
    /\ queue[Len(queue)].key = last.key
    /\ queue[Len(queue)].cooldown_until # None
    /\ queue[1].cooldown_until # None
    /\ queue[1].cooldown_until[1] > now

AvailableSecrets == {k.key : k \in {k \in Range(queue) : is_available(k, now)}}

\* C3 Lease fairness: in a run of consecutive Requests, with two or more keys
\* available the key handed out is not the one handed out just before, and a
\* key is handed out again only after every other available key has been.
LeaseFairness ==
    [][(RequestStep /\ last'.ok) =>
        /\ (Cardinality(AvailableSecrets) >= 2 /\ leaseRun # <<>>)
              => leaseRun[Len(leaseRun)] # last'.key
        /\ \A i \in 1..Len(leaseRun) :
              leaseRun[i] = last'.key =>
                  AvailableSecrets \ {last'.key}
                      \subseteq {leaseRun[j] : j \in (i + 1)..Len(leaseRun)}]_vars

\* A run of four leases over three keys has come round to its first key.
LeaseFairnessWitness ==
    /\ Len(leaseRun) = 4
    /\ Cardinality({leaseRun[i] : i \in 1..3}) = 3
    /\ leaseRun[4] = leaseRun[1]

\* C4 A handled message spawns a save iff it changed the pool's membership or
\* some key's cooldown (the queue as a set of keys with their cooldowns).
SaveIffChanged ==
    [][(saveTasks' # saveTasks) <=> (Range(queue') # Range(queue))]_vars

\* A Return of a pooled key has been handled and no save was ever spawned: its
\* cooldown was the stored one.
SaveIffChangedWitness ==
    /\ last.type = "Return"
    /\ last.ok
    /\ saveTasks = EmptyBag

\* C5 Snapshot convergence: once every spawned save task has finished, the
\* configuration file holds the keys of the queue, with their cooldowns.
SnapshotConverges ==
    saveTasks = EmptyBag => disk = Range(queue)

\* C6 try_chat makes at most max_retries + 1 attempts, whatever the upstream
\* answers, and it ends, with a response or an error.
TryChatBounded ==
    /\ [](\A r \in Reqs :
            /\ req[r].attempts <= max_retries + 1
            /\ req[r].pc = "done" => req[r].result # None)
    /\ <>(\A r \in Reqs : req[r].pc \in {"idle", "done"})

\* The loop has run out after max_retries + 1 failed attempts.
TryChatBoundedWitness ==
    /\ req[1].pc = "done"
    /\ req[1].attempts = max_retries + 1
    /\ req[1].result = Some(GeminiHttpError(500))

\* The attempt of request r ends in this step: its result has been matched.
AttemptEnds(r) == req'[r].n = req[r].n + 1

\* The step left the pool alone and sent it nothing.
NoPoolMessage ==
    /\ \/ mailbox' = mailbox
       \/ mailbox # <<>> /\ mailbox' = Tail(mailbox)
    /\ Range(queue') = Range(queue)

\* C7 An attempt with a leased key that fails with HTTP status c files, by c
\* alone: for 400 and 403 one Delete of the leased key, for 429 one Return of
\* it with a newly set cooldown, for any other status nothing; and the loop
\* goes on to its next turn, ending with the error only when none is left.
ErrorClassification ==
    /\ [][\A r \in Reqs :
            (AttemptEnds(r) /\ req'[r].outcome.kind = "GeminiHttpError"
                           /\ req[r].key # None) =>
                LET c == req'[r].outcome.code IN
                /\ reports' = reports (+)
                      (IF c \in {400, 403, 429}
                       THEN SetToBag({[kind |-> ToString(c), key |-> req[r].key]})
                       ELSE EmptyBag)
                /\ mailbox' = mailbox
                /\ queue' = queue
                /\ req'[r].pc = "start"
                /\ req'[r].i = req[r].i + 1]_vars
    /\ [][\A task \in BagToSet(reports) :
            (reports' = reports (-) SetToBag({task}) /\ task.key # None /\ actorAlive) =>
                \E m \in [type : {"Return", "Delete"}, key : {Some(k) : k \in KeyStatus},
                           from : {0}, report : {task.kind}] :
                    /\ mailbox' = Append(mailbox, m)
                    /\ m.key[1].key = task.key[1].key
                    /\ task.kind \in {"400", "403"} => m.type = "Delete"
                    /\ task.kind = "429" =>
                          /\ m.type = "Return"
                          /\ m.key[1].cooldown_until # None
                          /\ m.key[1].cooldown_until[1] > now]_vars
    /\ [](\A r \in Reqs :
            (req[r].pc = "done" /\ req[r].result[1].kind = "GeminiHttpError")
                => req[r].i = max_retries + 1)

\* After a 429 the request is in its next turn and the Return carrying the new
\* cooldown has reached the actor's mailbox.
ErrorClassificationWitness ==
    /\ req[1].outcome = GeminiHttpError(429)
    /\ req[1].pc = "lease"
    /\ req[1].attempts = 2
    /\ \E j \in 1..Len(mailbox) :
          /\ mailbox[j].type = "Return"
          /\ mailbox[j].key[1].cooldown_until # None

\* C8 When the validator answers EmptyChoices the attempt is retried and no
\* report is filed against its key: no Return, no Delete, no cooldown change.
EmptyChoicesRetried ==
    /\ [][\A r \in Reqs :
            (AttemptEnds(r) /\ req'[r].outcome = Err("EmptyChoices")) =>
                /\ reports' = reports
                /\ mailbox' = mailbox
                /\ queue' = queue
                /\ req'[r].pc = "start"
                /\ req'[r].i = req[r].i + 1]_vars
    /\ [](\A r \in Reqs :
            (req[r].pc = "done" /\ req[r].result = Some(Err("EmptyChoices")))
                => req[r].i = max_retries + 1)

\* After an EmptyChoices verdict the next attempt has its key and is calling
\* the upstream, with no report or message outstanding.
EmptyChoicesRetriedWitness ==
    /\ req[1].outcome = Err("EmptyChoices")
    /\ req[1].pc = "send"
    /\ req[1].attempts = 2
    /\ req[1].key # None
    /\ reports = EmptyBag
    /\ mailbox = <<>>

NonHttpSendErrors ==
    {"NoKeyAvailable", "BuildClient", "Transport", "BadRequest", "RactorError"}

\* C9 A non-HTTP error of the send step is fatal: try_chat returns it at once,
\* files no report, and makes no further attempt.
NonHttpFatal ==
    /\ [][\A r \in Reqs :
            (AttemptEnds(r) /\ req'[r].outcome.kind \in NonHttpSendErrors) =>
                /\ req'[r].pc = "done"
                /\ req'[r].result = Some(req'[r].outcome)
                /\ reports' = reports
                /\ NoPoolMessage]_vars
    /\ [][\A r \in Reqs : req[r].pc = "done" => req'[r] = req[r]]_vars

\* The first attempt failed in transport and the request is over although a
\* retry was left; nothing was filed.
NonHttpFatalWitness ==
    /\ req[1].pc = "done"
    /\ req[1].result = Some(Err("Transport"))
    /\ req[1].key # None
    /\ req[1].attempts = 1
    /\ req[1].attempts < max_retries + 1
    /\ reports = EmptyBag

\* C10 A validator error other than EmptyChoices ends try_chat with that
\* error: once an attempt has ended with one, the request is over.
ValidatorErrorFatal ==
    \A r \in Reqs :
        req[r].outcome.kind \in {"JsonError", "BodyRead"} =>
            /\ req[r].pc = "done"
            /\ req[r].result = Some(req[r].outcome)

\* The actor handles the Return a report_success sent.
SuccessReturnHandled ==
    /\ actorAlive
    /\ mailbox # <<>>
    /\ Head(mailbox).type = "Return"
    /\ Head(mailbox).report = "success"
    /\ mailbox' = Tail(mailbox)

\* C11 report_success changes no pool state: when the actor handles the Return
\* of a successful attempt, the keys of the pool and the cooldown of each are
\* what they were just before.
SuccessReturnKeepsPool ==
    [][SuccessReturnHandled => Range(queue') = Range(queue)]_vars

\* C12 When the loop of try_chat is exhausted it returns the error of the last
\* failed attempt, and TooManyRetries only if no attempt captured an error.
LastErrorReturned ==
    \A r \in Reqs :
        (req[r].pc = "done" /\ req[r].i >= req[r].max_retries + 1) =>
            /\ req[r].n > 0 => req[r].result = Some(req[r].outcome)
            /\ req[r].result = Some(Err("TooManyRetries")) => req[r].n = 0

\* The loop ran out on a 500 after an earlier attempt was answered 429: the
\* report of that attempt is still to run.
LastErrorReturnedWitness ==
    /\ req[1].pc = "done"
    /\ req[1].i = req[1].max_retries + 1
    /\ req[1].result = Some(GeminiHttpError(500))
    /\ \E task \in BagToSet(reports) : task.kind = "429"

\* C13 Retry on transient failure: against an upstream that answers 429 fewer
\* than max_retries times and then 200, the request ends with the 200 response.
TransientReturns200 ==
    (upstream = "transient" /\ req[1].pc = "done") => req[1].result = Some(OkResponse)

\* The request is over and every report it filed has been handled.
Quiescent ==
    /\ req[1].pc = "done"
    /\ reports = EmptyBag
    /\ mailbox = <<>>

\* The cooldown of the pooled key with secret s.
CooldownOf(s) == (CHOOSE k \in Range(queue) : k.key = s).cooldown_until

\* The secrets of the queue, in its order.
QueueOrder == [i \in 1..Len(queue) |-> queue[i].key]

\* C14 Scenario S1 as stated: the handler returns 200 and, once all reports
\* are processed, K1.cooldown_until > now, K2.cooldown_until is unchanged and
\* the pool order is [K2, K1].
S1PoolOrderK2K1 ==
    (upstream = "S1" /\ Quiescent) =>
        /\ req[1].result = Some(OkResponse)
        /\ QueueOrder = <<"K2", "K1">>
        /\ CooldownOf("K1") # None /\ CooldownOf("K1")[1] > now
        /\ CooldownOf("K2") = K2.cooldown_until

\* C14 Scenario S1, amended: the request ends, with the 200 response, and once
\* all reports are processed K1.cooldown_until > now, K2.cooldown_until is
\* unchanged and the pool order is [K1, K2]: each of the two leases moved its
\* key to the tail.
S1PoolOrderK1K2 ==
    /\ [](upstream = "S1" =>
            /\ req[1].pc = "done" => req[1].result = Some(OkResponse)
            /\ Quiescent =>
                  /\ QueueOrder = <<"K1", "K2">>
                  /\ CooldownOf("K1") # None /\ CooldownOf("K1")[1] > now
                  /\ CooldownOf("K2") = K2.cooldown_until)
    /\ <>(upstream = "S1" => Quiescent)

\* Scenario S1 is over: two attempts, the 200 returned, both reports handled.
S1PoolOrderWitness ==
    /\ upstream = "S1"
    /\ Quiescent
    /\ req[1].attempts = 2
    /\ req[1].result = Some(OkResponse)
    /\ QueueOrder = <<"K1", "K2">>
    /\ CooldownOf("K1") # None

\* C15 Scenario S2: against an upstream that answers 403, with the pool [K1],
\* the request ends with the upstream's error, not with NoKeyAvailable.
S2ReturnsUpstreamError ==
    (upstream = "S2" /\ req[1].pc = "done") =>
        req[1].result = Some(GeminiHttpError(403))

VertexWithoutCredential(r) == req[r].vertex /\ ~vertex_credential

\* C16 Scenario S5: on the Vertex path with no credential configured the
\* request ends after a single attempt with BadRequest, and at no time has it
\* asked for a token, called the upstream or asked the pool for a key.
S5BadRequest ==
    /\ [](\A r \in Reqs : VertexWithoutCredential(r) =>
            /\ req[r].pc \notin SuspensionPoints
            /\ req[r].key = None
            /\ req[r].attempts <= 1
            /\ mailbox = <<>>
            /\ reports = EmptyBag
            /\ req[r].pc = "done" =>
                  /\ req[r].result = Some(Err("BadRequest"))
                  /\ req[r].attempts = 1)
    /\ <>(VertexWithoutCredential(1) => req[1].pc = "done")

\* The Vertex request without credential is over, a retry unused, the pool of
\* two keys as it was.
S5BadRequestWitness ==
    /\ VertexWithoutCredential(1)
    /\ req[1].pc = "done"
    /\ req[1].result = Some(Err("BadRequest"))
    /\ req[1].attempts < req[1].max_retries + 1
    /\ queue = <<K1, K2>>
    /\ last.type = "-"

\* C17 Request-token composition: the request token of a request is never
\* cancelled while neither the shutdown token nor the request's connection
\* token is, and once one of the two is cancelled it gets cancelled.
RequestTokenComposition ==
    /\ [](\A c \in Conns :
            RequestTokenCancelled(c) => (shutdown \/ (conn[c].has_token /\ conn[c].token)))
    /\ \A c \in Conns :
          (Started(c) /\ (shutdown \/ (conn[c].has_token /\ conn[c].token)))
              ~> RequestTokenCancelled(c)

\* With no shutdown, the bridging task has cancelled the request token of a
\* request whose connection token was cancelled while its handler ran.
RequestTokenCompositionWitness ==
    \E c \in Conns :
        /\ ~shutdown
        /\ conn[c].has_token
        /\ conn[c].token
        /\ conn[c].handler = "running"
        /\ conn[c].bridge = "done"
        /\ RequestTokenCancelled(c)

\* The request on c, and the body of its response if it streams, is over.
Completed(c) == conn[c].mw = "returned" /\ conn[c].body \in {"-", "ended"}

\* C18 No bridging-task leak: once a request that carries a connection token
\* is over, its stream included, its bridging task has ended or, one of the
\* tokens it waits for being cancelled, is about to - with no shutdown.
BridgingTaskEnds ==
    \A c \in Conns :
        (Completed(c) /\ conn[c].has_token /\ ~shutdown) =>
            (conn[c].bridge = "done" \/ conn[c].token)

\* C19 Cancellation completeness: a request whose token was cancelled while it
\* was suspended at one of its awaits ends with RequestCancelled.
CancelledEndsCancelled ==
    \A r \in Reqs :
        (req[r].cancelled /\ req[r].pc = "done") =>
            req[r].result = Some(Err("RequestCancelled"))

\* connection_monitor returns the response of c in this step.
MonitorReturns(c) == conn[c].mw # "returned" /\ conn'[c].mw = "returned"

\* C20 When connection_monitor finishes a request: for a streaming response it
\* removes the registry entry and leaves the connection token as it is; for any
\* other response the token has been cancelled when the entry is removed; and
\* either way the registry does not hold the connection id afterwards.
MonitorFinish ==
    /\ [][\A c \in Conns : MonitorReturns(c) =>
            /\ c \notin registry'
            /\ conn'[c].token = conn[c].token
            /\ IF conn[c].resp \in {"stream", "fake"}
               THEN conn[c].mw = "finish"
               ELSE conn[c].mw = "unregister" /\ conn[c].token]_vars
    /\ [][\A c \in Conns :
            (conn[c].mw = "finish" /\ conn'[c].mw = "unregister") =>
                /\ conn[c].resp \notin {"stream", "fake"}
                /\ conn'[c].token
                /\ registry' = registry]_vars
    /\ [](\A c \in Conns : conn[c].mw = "returned" => c \notin registry)

\* Both connections are through connection_monitor and the registry is empty:
\* one with a streaming response and its token not cancelled, the other with a
\* plain response and its token cancelled.
MonitorFinishWitness ==
    /\ registry = {}
    /\ conn[1].mw = "returned" /\ conn[1].resp = "stream" /\ ~conn[1].token
    /\ conn[2].mw = "returned" /\ conn[2].resp = "plain" /\ conn[2].token

\* C21: whenever a fake stream that was given its connection id has ended, by
\* upstream success, upstream error or cancellation, the connection's token is
\* cancelled.
FakeStreamCancelsConnection ==
    \A c \in FakeConns :
        fake[c].main \in {"ended", "aborted"} /\ conn[c].has_token => conn[c].token

\* n keep-alive frames
KeepAliveFrames(n) == [i \in 1..n |-> "keepalive"]

\* The frames after the keep-alive frames of a successful fake stream.
SuccessFrames(format) ==
    IF format = "OpenAI" THEN <<"content", "terminal", "done">>
    ELSE <<"content", "terminal">>

\* The stream of c has ended after its upstream call succeeded.
EndedOk(c) == fake[c].main = "ended" /\ fake[c].api = "ok"

\* C22: a fake stream whose upstream call succeeded has yielded keep-alive
\* frames, then one content frame, one terminal frame and, for OpenAI, one
\* [DONE] frame, and nothing else.
SuccessFramesYielded ==
    \A c \in FakeConns :
        EndedOk(c) =>
            \E n \in 0..Len(fake[c].out) :
                fake[c].out = KeepAliveFrames(n) \o SuccessFrames(fake[c].format)

\* The keep-alive frames the client of c has received.
KeepAlivesReceived(c) == Len(SelectSeq(fake[c].out, LAMBDA x : x = "keepalive"))

\* The upstream call of c succeeded without the request being cancelled, the
\* client took every frame at once, and no interval went by while a frame was
\* still on its way.
PromptSuccess(c) == EndedOk(c) /\ ~fake[c].late

\* Over an upstream call lasting N intervals the client receives at least N
\* keep-alive frames (the part of C23 about the keep-alive frames alone).
KeepAliveRate ==
    \A c \in FakeConns : PromptSuccess(c) => KeepAlivesReceived(c) >= fake[c].elapsed

\* C23: over an upstream call lasting N intervals the client receives at
\* least N keep-alive frames, followed by exactly one content frame, one
\* terminal frame and, for OpenAI, one [DONE] frame.
FakeStreamLiveness ==
    \A c \in FakeConns :
        PromptSuccess(c) =>
            \E n \in fake[c].elapsed..Len(fake[c].out) :
                fake[c].out = KeepAliveFrames(n) \o SuccessFrames(fake[c].format)

\* The fake stream of c has ended because its request token was cancelled while
\* the upstream call was in flight.
EndedCancelled(c) ==
    \/ fake[c].main = "aborted"
    \/ fake[c].main = "ended" /\ fake[c].api = "cancelled"

\* active_connection_count()
active_connection_count == Cardinality(registry)

\* C24: a fake stream whose request token was cancelled in flight has yielded
\* an error frame as its last item and its connection is not registered; when
\* both streams have ended so, no connection is registered.
CancelledStreamErrorFrame ==
    /\ \A c \in Conns :
          EndedCancelled(c) =>
              /\ fake[c].out # <<>>
              /\ fake[c].out[Len(fake[c].out)] = "error"
              /\ c \notin registry
    /\ (\A c \in Conns : EndedCancelled(c)) => active_connection_count = 0

\* The part of C24 about the registry alone.
CancelledStreamUnregistered ==
    /\ \A c \in Conns : EndedCancelled(c) => c \notin registry
    /\ (\A c \in Conns : EndedCancelled(c)) => active_connection_count = 0

\* C25: once the fake stream of a request is over (ended after the upstream
\* call, ended on cancellation, or dropped by the client), its keep-alive
\* task eventually exits, wherever it was: waiting for a tick, or for room in
\* the channel.
KeepAliveTerminates ==
    \A c \in FakeConns : receiver_dropped(c) ~> ~KeepAliveLive(c)

\* The client went away while the channel was full, and the task has exited.
KeepAliveTerminatesWitness ==
    \E c \in FakeConns :
        /\ fake[c].main = "dropped"
        /\ fake[c].chan = KeepAliveCapacity
        /\ fake[c].ka = "exited"

\* The texts of the lenient-nesting law: a top-level tag opened and closed
\* around a tag that is opened and never closed.
LenientInputs ==
    {Input(<<Open(name_A), Open(name_broken), Plain, Close(name_A)>>, <<name_A>>),
     Input(<<Open(name_content), Open(name_answer), Close(name_content)>>,
           <<name_content, name_answer>>)}

\* The text under validation is the text of input.
Validating(input) == validation.toks = input.toks /\ validation.tags = input.tags

\* C26: a top-level tag that is opened and closed is accepted as balanced even
\* when a tag opened inside it is never closed: check_tags_closed returns true
\* for "<A><broken>x</A>" with tag A and for "<content><answer></content>"
\* with tags content,answer.
LenientNestingAccepted ==
    \A input \in LenientInputs :
        Validating(input) /\ validation.closed # "?" => validation.closed = "true"

\* The number of tags open before token i of a text.
RECURSIVE DepthBefore(_, _)
DepthBefore(toks, i) ==
    IF i = 1 THEN 0
    ELSE LET d == DepthBefore(toks, i - 1)
             t == toks[i - 1]
         IN  CASE t.kind = "open" -> d + 1
               [] t.kind = "close" -> IF d > 0 THEN d - 1 ELSE 0
               [] OTHER -> d

\* Token i of a text is a tag of the given kind named tag, in any letter case.
IsTag(toks, i, kind, tag) == toks[i].kind = kind /\ lowercase(toks[i].name) = lowercase(tag)

\* The text has a tag named tag that is opened at nesting depth 0 and closed
\* later, or is self-closing at nesting depth 0.
TopLevelClosed(toks, tag) ==
    \E i \in 1..Len(toks) :
        /\ DepthBefore(toks, i) = 0
        /\ \/ IsTag(toks, i, "self", tag)
           \/ /\ IsTag(toks, i, "open", tag)
              /\ \E j \in (i + 1)..Len(toks) : IsTag(toks, j, "close", tag)

\* The text is made of well-formed tags and plain characters.
WellFormedText(toks) == \A i \in 1..Len(toks) : toks[i] # Lt

\* The texts of scenario S4: the required tags side by side, and one nested in
\* the other.
S4SideBySide ==
    Input(<<Open(name_thinking), Plain, Close(name_thinking),
            Open(name_content), Plain, Close(name_content)>>,
          <<name_thinking, name_content>>)

S4Nested ==
    Input(<<Open(name_content), Open(name_thinking), Plain, Close(name_thinking),
            Close(name_content)>>,
          <<name_thinking, name_content>>)

\* C27: check_required_tags_exist succeeds only if every required tag occurs
\* as a top-level tag (opened at nesting depth 0) that is closed; it rejects
\* "<content><thinking>a</thinking></content>" and accepts
\* "<thinking>a</thinking><content>b</content>" with required thinking,content.
RequiredTagsTopLevel ==
    /\ validation.exist = "true" /\ WellFormedText(validation.toks)
           => \A t \in 1..Len(parse_tags(validation.tags)) :
                  TopLevelClosed(validation.toks, parse_tags(validation.tags)[t])
    /\ Validating(S4Nested) /\ validation.exist # "?" => validation.exist = "false"
    /\ Validating(S4SideBySide) /\ validation.exist # "?" => validation.exist = "true"

\* The examples of C27 alone: they hold.
RequiredTagsExamples ==
    /\ Validating(S4Nested) /\ validation.exist # "?" => validation.exist = "false"
    /\ Validating(S4SideBySide) /\ validation.exist # "?" => validation.exist = "true"

\* The texts "<DIV>x</DIV>" and "<DIV>x" with the configured tag div.
DivClosed == Input(<<Open(name_DIV), Plain, Close(name_DIV)>>, <<name_div>>)
DivUnclosed == Input(<<Open(name_DIV), Plain>>, <<name_div>>)

\* What analyze_top_level_tags reports for the text under validation.
TopLevelAnalysis == analyze_top_level_tags(validation.content, parse_tags(validation.tags))

\* No tag of the text has, byte for byte, the name of a configured tag.
NoExactTag ==
    \A i \in 1..Len(validation.toks) :
        validation.toks[i].kind \in {"open", "close", "self"}
            => \A t \in 1..Len(parse_tags(validation.tags)) :
                   validation.toks[i].name # parse_tags(validation.tags)[t]

\* C28 as stated: tag-name matching is byte-exact and case-sensitive: a tag
\* whose name differs from a configured name only in letter case is not
\* treated as that tag, so a text without any tag of a configured name has no
\* top-level tag to report and none to close.
ByteExactMatching ==
    validation.closed \in {"true", "false"} /\ WellFormedText(validation.toks) /\ NoExactTag
        => TopLevelAnalysis.tags = <<>> /\ validation.closed = "true"

\* C28, amended: the scanner (find_tag_end, find_opening_tag_end) matches tag
\* names ignoring ASCII letter case: check_tags_closed gives the verdict it
\* gives for the lower-cased text and tags, "<DIV>x</DIV>" is reported as the
\* balanced top-level tag div, and "<DIV>x" is an unclosed div.
CaseInsensitiveMatching ==
    /\ validation.closed \in {"true", "false"}
           => validation.closed =
                  check_tags_closed(lowercase(validation.content), lowercase(validation.tags))
    /\ Validating(DivClosed) /\ validation.closed # "?"
           => /\ TopLevelAnalysis.tags = <<[name |-> name_div, is_balanced |-> TRUE]>>
              /\ validation.closed = "true"
    /\ Validating(DivUnclosed) /\ validation.closed # "?" => validation.closed = "false"

\* "<DIV>x" with the configured tag div has been checked and found unclosed.
CaseInsensitiveWitness == Validating(DivUnclosed) /\ validation.closed = "false"

\* The texts "<thinking>x</thinking>" with required tag think and
\* "<think>x</think>" with required tag thinking.
ThinkingForThink == Input(<<Open(name_thinking), Plain, Close(name_thinking)>>, <<name_think>>)
ThinkForThinking == Input(<<Open(name_think), Plain, Close(name_think)>>, <<name_thinking>>)

\* The text has an opening or self-closing tag named tag, in any letter case.
HasTagNamed(toks, tag) ==
    \E i \in 1..Len(toks) : IsTag(toks, i, "open", tag) \/ IsTag(toks, i, "self", tag)

\* C29: a configured tag name never matches a tag whose name merely has it as
\* a prefix or extends it: a text in which some required tag is the name of no
\* opening or self-closing tag is never accepted by check_required_tags_exist,
\* and "<thinking>x</thinking>" with required think and "<think>x</think>"
\* with required thinking are rejected.
NoPrefixMatch ==
    /\ \A t \in 1..Len(parse_tags(validation.tags)) :
           ~HasTagNamed(validation.toks, parse_tags(validation.tags)[t])
               => validation.exist # "true"
    /\ Validating(ThinkingForThink) /\ validation.exist # "?" => validation.exist = "false"
    /\ Validating(ThinkForThinking) /\ validation.exist # "?" => validation.exist = "false"

\* "<thinking>x</thinking>" has been checked for the required tag think and
\* rejected.
NoPrefixMatchWitness == Validating(ThinkingForThink) /\ validation.exist = "false"

\* The texts of the parts that have one, concatenated.
RECURSIVE concat_texts(_)
concat_texts(parts) ==
    IF parts = <<>> THEN <<>>
    ELSE (IF Head(parts).text THEN render(Head(parts).toks) ELSE <<>>)
             \o concat_texts(Tail(parts))

\* The generated text of a buffered response: the first candidate's text parts
\* concatenated (Gemini), the first choice's message.content (OpenAI); empty
\* when there is none.
GeneratedText(resp) == IF resp.has_content THEN concat_texts(resp.parts) ELSE <<>>

\* The response has a part with a text.
HasText(resp) == resp.has_content /\ \E p \in 1..Len(resp.parts) : resp.parts[p].text

\* C30: with a non-empty required-tags list every buffered response that
\* check_empty_choices lets through as a success has a generated text that
\* passes validate_required_tags; a response whose generated text fails it, a
\* response with no text at all included, yields EmptyChoices.
BufferedSuccessValidated ==
    validation.verdict = "Ok" /\ trim(validation.tags) # <<>>
        => validate_required_tags(GeneratedText(validation.resp), validation.tags) = "Ok"

\* The same for the responses that have a text: it holds.
BufferedTextValidated ==
    validation.verdict = "Ok" /\ trim(validation.tags) # <<>> /\ HasText(validation.resp)
        => validate_required_tags(GeneratedText(validation.resp), validation.tags) = "Ok"

\* The keys of a queue other than the one with secret s, in queue order.
OtherKeys(state, s) == SelectSeq(state, LAMBDA k : k.key # s)

\* The indices of the keys of the queue that are available now.
AvailableIndices == {i \in 1..Len(queue) : is_available(queue[i], now)}

\* C31: a Request returns the first available key in queue order; afterwards
\* that key is at the tail of the queue and the relative order of all other
\* keys is unchanged; if no key is available the Request fails and the queue
\* (order, membership, cooldowns) is unchanged.
RequestFirstAvailable ==
    [][RequestStep =>
        IF AvailableIndices = {}
        THEN ~last'.ok /\ queue' = queue
        ELSE LET i == CHOOSE i \in AvailableIndices : \A j \in AvailableIndices : i <= j
             IN  /\ last'.ok
                 /\ last'.key = queue[i].key
                 /\ Len(queue') = Len(queue)
                 /\ queue'[Len(queue')] = queue[i]
                 /\ OtherKeys(queue', queue[i].key) = OtherKeys(queue, queue[i].key)]_vars

\* A Request has passed over a key that is cooling down at the front of a
\* queue of three and has handed out a key that left an available key behind
\* it.
RequestFirstAvailableWitness ==
    /\ last.type = "Request"
    /\ last.ok
    /\ Len(queue) = 3
    /\ ~is_available(queue[1], now)
    /\ is_available(queue[2], now)
    /\ queue[3].key = last.key
    /\ queue[3].cooldown_until # None

\* A Request has failed on a queue of keys that are all cooling down.
RequestNoKeyWitness ==
    /\ last.type = "Request"
    /\ ~last.ok
    /\ Len(queue) >= 2

\* The secrets of a queue, in queue order.
SecretsOf(state) == [i \in 1..Len(state) |-> state[i].key]

\* C32: a Return never changes pool membership or order: a pooled key with the
\* same secret is replaced in place by the provided one, every other entry is
\* left as it is, and the Return of a key that is not in the pool is
\* discarded, so it never adds a key.
ReturnInPlace ==
    [][last'.type = "Return" /\ now' = now =>
       \A key \in {k \in KeyStatus : k.key = last'.key} :
          Return(key) =>
              /\ SecretsOf(queue') = SecretsOf(queue)
              /\ \A i \in 1..Len(queue) :
                     queue'[i] = IF queue[i].key = key.key THEN key ELSE queue[i]
              /\ key.key \notin Range(SecretsOf(queue))
                     => queue' = queue /\ saveTasks' = saveTasks /\ config_keys' = config_keys]_vars

\* The Return of a key that is not in the pool has been handled: the pool,
\* which holds other keys, and the configuration are without it.
ReturnInPlaceWitness ==
    /\ last.type = "Return"
    /\ ~last.ok
    /\ Len(queue) >= 2
    /\ last.key \notin Range(SecretsOf(queue))
    /\ \A k \in config_keys : k.key # last.key

\* C33: a Delete of a key that is in the pool removes it, replies Ok and
\* spawns a save of the remaining keys; a Delete of a key that is not in the
\* pool replies with an error and leaves the pool, the configuration and the
\* save tasks as they are.
DeleteRemoves ==
    [][last'.type = "Delete" /\ now' = now =>
       LET s == last'.key IN
       (\E key \in {k \in KeyStatus : k.key = s} : Delete(key, actorAlive')) =>
           IF s \in Range(SecretsOf(queue))
           THEN /\ queue' = OtherKeys(queue, s)
                /\ last'.ok
                /\ config_keys' = Range(queue')
                /\ saveTasks' = saveTasks (+) SetToBag({Spawned})
           ELSE /\ queue' = queue
                /\ ~last'.ok
                /\ config_keys' = config_keys
                /\ saveTasks' = saveTasks]_vars

\* A Delete has removed a key that the pool held with another cooldown than
\* the one the message carried, leaving two keys.
DeleteRemovesWitness ==
    /\ last.type = "Delete"
    /\ last.ok
    /\ Len(queue) = 2
    /\ last.key \notin Range(SecretsOf(queue))
    /\ \E k \in Range(queue) : k.cooldown_until # None

\* A Delete of a key the pool does not hold has been refused.
DeleteMissingWitness ==
    /\ last.type = "Delete"
    /\ ~last.ok
    /\ Len(queue) >= 1

\* The report tasks an attempt can spawn for a leased key.
ReportTasks ==
    {ReportTask(kind, Some(k)) : kind \in {"400", "403", "429", "success"},
                                 k \in {NewKey("K1"), NewKey("K2")}}

\* The actor has just handled the message of a report task: a Delete of its
\* key for a 400 or 403, a Return of it for a 429 or a success.
ReportHandled(task) ==
    /\ last.type = (IF task.kind \in {"400", "403"} THEN "Delete" ELSE "Return")
    /\ last.key = task.key[1].key

\* C34: once an attempt has spawned a report, the message of the report is
\* eventually handled by the pool actor, even if the request token is
\* cancelled or the request ends right afterwards.
ReportsHandled ==
    \A task \in ReportTasks : BagIn(task, reports) ~> ReportHandled(task)

\* The same while the actor keeps running: it holds.
ReportsHandledWhileAlive ==
    (<>~actorAlive) \/ ReportsHandled

\* C35: in the fake-streaming main loop cancellation wins ties: when the
\* request token is cancelled at the moment the loop selects, the cancellation
\* branch is the one taken, whether or not the upstream call has completed or
\* a keep-alive frame is queued: the stream yields its cancellation error and
\* ends, and no content, keep-alive or upstream-error frame follows.
CancellationWinsTies ==
    [][\A c \in FakeConns :
          (fake[c].main = "aborted" \/ (fake[c].main = "select" /\ RequestTokenCancelled(c)))
              => /\ fake'[c].main \in {fake[c].main, "aborted", "dropped"}
                 /\ \/ fake'[c].out = fake[c].out
                    \/ /\ fake[c].main = "select"
                       /\ fake'[c].main = "aborted"
                       /\ fake'[c].out = Append(fake[c].out, "Err")]_vars

\* The cancellation branch was taken with the upstream call completed and a
\* keep-alive frame in the channel.
CancellationWinsTiesWitness ==
    \E c \in FakeConns :
        /\ fake[c].main = "aborted"
        /\ fake[c].api = "ok"
        /\ fake[c].chan > 0
        /\ fake[c].out # <<>>
        /\ fake[c].out[Len(fake[c].out)] = "Err"

\* C40: in a fake-streaming response keep-alive frames occur only as a prefix
\* of the stream: none follows a content frame, an upstream-error frame or
\* the cancellation error.
KeepAlivePrefix ==
    \A c \in FakeConns :
        \A i, j \in 1..Len(fake[c].out) :
            i < j /\ fake[c].out[j] = "keepalive" => fake[c].out[i] = "keepalive"

\* A stream has ended with keep-alive frames followed by content, with a frame
\* left in the channel and the keep-alive task not yet stopped.
KeepAlivePrefixWitness ==
    \E c \in FakeConns :
        /\ fake[c].main = "ended"
        /\ Len(fake[c].out) >= 3
        /\ fake[c].out[1] = "keepalive"
        /\ fake[c].out[Len(fake[c].out)] = "terminal"
        /\ fake[c].chan > 0
        /\ KeepAliveLive(c)

\* The secret s is in use: an attempt holds it for its upstream call or for
\* the validation of the response, or the report that ends an attempt's use of
\* it is spawned or sent and not yet handled by the actor.
InUse(s) ==
    \/ \E r \in Reqs : /\ req[r].pc \in {"send", "validate"}
                       /\ req[r].key # None
                       /\ req[r].key[1].key = s
    \/ \E task \in BagToSet(reports) : task.key # None /\ task.key[1].key = s
    \/ \E i \in 1..Len(mailbox) : /\ mailbox[i].type \in {"Return", "Delete"}
                                  /\ mailbox[i].key[1].key = s

\* The actor answers the Request of r with a key.
Leased(r) == req[r].pc = "lease" /\ req'[r].pc = "send"

\* C36: a lease is exclusive: from the Request that hands key K to an attempt
\* until the actor has handled the Return or Delete that ends that attempt's
\* use of K, no other Request is answered with K.
LeaseExclusive ==
    [][\A r \in Reqs : Leased(r) => ~InUse(req'[r].key[1].key)]_vars

\* An attempt has received 429 for the secret s and the report that sets the
\* cooldown is spawned or sent, not yet handled by the actor.
Pending429(s) ==
    \/ \E task \in BagToSet(reports) :
          task.kind = "429" /\ task.key # None /\ task.key[1].key = s
    \/ \E i \in 1..Len(mailbox) : /\ mailbox[i].type = "Return"
                                  /\ mailbox[i].report = "429"
                                  /\ mailbox[i].key[1].key = s

\* C37: after an attempt has received 429 for key K, no Request is answered
\* with K before the cooldown of that 429 has expired, however the report of
\* the 429 and the Requests that follow interleave: in particular not while
\* the report is still on its way to the actor.
No429KeyLeased ==
    [][\A r \in Reqs : Leased(r) => ~Pending429(req'[r].key[1].key)]_vars

\* Every request that runs is on the Vertex path.
VertexOnly == \A r \in Reqs : req[r].pc # "idle" => req[r].vertex

\* C38: on the Vertex path a request sends no message to the key-pool actor:
\* it holds no key, its reports carry none and file no Return and no Delete,
\* whatever the upstream answered, so the pool's membership, its cooldowns and
\* its snapshot stay as they were.
VertexLeavesPool ==
    VertexOnly =>
        /\ \A r \in Reqs : req[r].key = None
        /\ \A task \in BagToSet(reports) : task.key = None
        /\ \A i \in 1..Len(mailbox) : mailbox[i].from \notin Reqs /\ mailbox[i].type = "Request"
        /\ last.type \notin {"Return", "Delete"}
        /\ Range(queue) = config_keys
        /\ \A k \in config_keys : k.cooldown_until = None
        /\ disk = config_keys
        /\ saveTasks = EmptyBag

\* A Vertex request has got 429 from the upstream, its report has run, and its
\* next attempt has succeeded and is validated, with keys in the pool.
VertexLeavesPoolWitness ==
    \E r \in Reqs :
        /\ req[r].vertex
        /\ req[r].pc = "done"
        /\ req[r].result = Some(OkResponse)
        /\ req[r].err = Some(GeminiHttpError(429))
        /\ reports = EmptyBag
        /\ queue # <<>>

\* C39: the tag scanner ends with a verdict for every content and every tag
\* list that is not empty, reading no character past the end of the content,
\* also when the content's last character is '<' or the content ends inside a
\* tag that is never terminated.
ScannerTerminates ==
    validation.closed # "panic" /\ validation.exist # "panic"

====
